---- MODULE Spec2Model ----
(***************************************************************************)
(* A model of the computational core of the Kundali generator: the         *)
(* Vimshottari Dasha engine (app.py), the Chalit house engine              *)
(* (astro_chalit_swiss.py, app.py) and the house assignment functions      *)
(* (app.py, chalit_kundali_vml.py, chalit_kundali_renderer.py).            *)
(*                                                                         *)
(* Numbers.  The program computes with floats; the model computes with     *)
(* exact integers in units fine enough that every value the modelled code  *)
(* produces is an integer:                                                 *)
(*   - instants and durations are in ticks, YEAR_DAYS ticks to the year    *)
(*     of 365.2422 days; a datetime is the number of ticks since an        *)
(*     epoch, a timedelta(days=x) is x itself;                             *)
(*   - the Moon's longitude is in arc-minutes (60 to the degree);     *)
(*   - house cusps and planet longitudes are in eighths of an arc-second   *)
(*     (Deg to the degree).                                                *)
(* The microsecond resolution of timedelta lies below these units and is   *)
(* not modelled.  Float rounding is modelled where a sum absorbs a value    *)
(* smaller than the spacing of the floats around it (see "Floats").        *)
(***************************************************************************)
EXTENDS Integers, Sequences, FiniteSets, TLC

VARIABLES
    \* ---- Dasha engine ----
    birth_utc_dt,   \* birth instant (ticks)
    moon_sid,       \* the Moon's sidereal longitude as passed in (arc-minutes)
    dop,            \* the Dasha operation that ran last
    bal,            \* result of moon_balance_days
    md_segments,    \* result of build_mahadashas_days_utc
    acall,          \* arguments of the last antar_segments_in_md_utc call
    antars,         \* its result
    pcall,          \* arguments of the last pratyantars_in_antar_utc call
    pratyantars,    \* its result
    qcall,          \* arguments of the last next_antar_in_days_utc call
    rows,           \* its result
    \* ---- Chalit house engine and house assignment ----
    cusps_trop,     \* the 12 tropical cusps of swe.houses_ex (Python tuple, 0..11)
    ay,             \* the ayanamsa of the instant
    hop,            \* the place in the house flow
    engine,         \* the function that produced begins and mids
    begins,         \* begins_sid: index 0 a placeholder, 1..12 the houses
    mids,           \* mids_sid, likewise
    asc_sid,        \* ascendant sign of get_chalit_begins_mids_swiss
    lon_sid,        \* the longitude handed to a house assignment function
    hfun,           \* the assignment function called
    house,          \* the house it returned
    lagna_sign,     \* the lagna sign of a Rasi house assignment
    swept,          \* how far lon_sid has moved from the start of the lagna sign
    \* ---- a call of one of the pure functions ----
    fn,             \* the function called
    arg,            \* its arguments
    ret,            \* what it returned
    \* ---- chart computations running side by side in one process ----
    sid_mode,       \* the sidereal mode of the Swiss Ephemeris (swe.set_sid_mode)
    job,            \* the computation each request runs, and its inputs
    pc,             \* where each request stands in it
    out             \* what each request has computed so far

hvars == <<cusps_trop, ay, hop, engine, begins, mids, asc_sid, lon_sid, hfun, house,
           lagna_sign, swept>>

dvars == <<birth_utc_dt, moon_sid, dop, bal, md_segments, acall, antars,
           pcall, pratyantars, qcall, rows>>

cvars == <<fn, arg, ret>>

svars == <<sid_mode, job, pc, out>>

vars == <<dvars, hvars, cvars, svars>>

\* a result not computed yet
None == [none |-> TRUE]

\* the Dasha engine before any of it has run
DashaIdle ==
    /\ dop = "init"
    /\ bal = None
    /\ md_segments = <<>>
    /\ acall = None
    /\ antars = <<>>
    /\ pcall = None
    /\ pratyantars = <<>>
    /\ qcall = None
    /\ rows = <<>>

\* the house engine before any of it has run
HouseIdle ==
    /\ hop = "init"
    /\ engine = "none"
    /\ begins = None
    /\ mids = None
    /\ asc_sid = 0
    /\ lon_sid = 0
    /\ hfun = "none"
    /\ house = 0

\* no pure function called yet
CallIdle == fn = "none" /\ arg = None /\ ret = None

\* no chart computations running side by side
SidOff == sid_mode = 0 /\ job = None /\ pc = None /\ out = None

\* what a step of a chart computation leaves alone
SidFrame == UNCHANGED <<dvars, hvars, cvars>>

\* the Dasha engine left out of a run
DashaOff == birth_utc_dt = 0 /\ moon_sid = 0 /\ DashaIdle

\* the house engine left out of a run
HouseOff == cusps_trop = None /\ ay = 0 /\ lagna_sign = 0 /\ swept = 0 /\ HouseIdle

\* what a step of the Dasha engine leaves alone
DashaFrame == UNCHANGED <<hvars, cvars, svars>>

\* what a step of the house engine leaves alone
HouseFrame == UNCHANGED <<dvars, cvars, svars>>

\* what a call of a pure function leaves alone
CallFrame == UNCHANGED <<dvars, hvars, svars>>

----------------------------------------------------------------------------
(* Units *)

\* one full circle in arc-minutes (the 360.0 of moon_balance_days)
MoonFull == 360 * 60

\* NAK = 360.0 / 27.0, one nakshatra slot (13 deg 20 min)
NAK == MoonFull \div 27

\* YEAR_DAYS = 365.2422 days, in ticks: a multiple of NAK and of 120 * 120, so
\* that a balance, an Antardasha and a Pratyantardasha are whole ticks
YEAR_DAYS == NAK * 120 * 120

\* one arc-second (the 1/3600 degree of round(v * 3600.0) / 3600.0), in units
ArcSec == 8

\* one degree and the full circle (360.0), in units
Deg == 3600 * ArcSec

Full == 360 * Deg

----------------------------------------------------------------------------
(* Dasha tables *)

ORDER == <<"Ke", "Ve", "Su", "Mo", "Ma", "Ra", "Ju", "Sa", "Me">>

YEARS_heavyKetu ==
    [Ke |-> 8, Ve |-> 20, Su |-> 6, Mo |-> 10, Ma |-> 7,
     Ra |-> 18, Ju |-> 16, Sa |-> 19, Me |-> 17]

YEARS ==
    [Ke |-> 7, Ve |-> 20, Su |-> 6, Mo |-> 10, Ma |-> 7,
     Ra |-> 18, Ju |-> 16, Sa |-> 19, Me |-> 17]

\* ORDER[i] with Python's 0-based index
OrderAt(i) == ORDER[i + 1]

\* ORDER.index(lord), 0-based
OrderIndex(lord) == (CHOOSE k \in 1..Len(ORDER) : ORDER[k] = lord) - 1

Lords == {ORDER[k] : k \in 1..Len(ORDER)}

Min2(a, b) == IF a <= b THEN a ELSE b

----------------------------------------------------------------------------
(* Dasha engine: app.py *)

moon_balance_elapsed(m) ==
    LET part    == m % MoonFull
        ni      == part \div NAK
        pos     == part - ni * NAK
        md_lord == OrderAt(ni % 9)
    IN  [lord |-> md_lord,
         days |-> YEARS[md_lord] * pos * (YEAR_DAYS \div NAK)]

\* moon_balance_days(moon_sid): the lord of the Moon's nakshatra and the days
\* left of its Mahadasha.  remaining_days = YEARS[md_lord] * (1 - frac) *
\* YEAR_DAYS with frac = pos / NAK, i.e. YEARS * (NAK - pos) * (YEAR_DAYS / NAK).
moon_balance_days(m) ==
    LET part    == m % MoonFull
        ni      == part \div NAK
        pos     == part - ni * NAK
        md_lord == OrderAt(ni % 9)
    IN  [lord |-> md_lord,
         days |-> YEARS[md_lord] * (NAK - pos) * (YEAR_DAYS \div NAK)]

\* the loop of antar_segments_in_md_utc: i is the loop index, t the running start
RECURSIVE AntarLoop(_, _, _, _, _)
AntarLoop(i, t, start_idx, md_days, res) ==
    IF i = 9 THEN res
    ELSE LET L   == OrderAt((start_idx + i) % 9)
             dur == YEARS[L] * (md_days \div 120)
             end == t + dur
         IN  AntarLoop(i + 1, end, start_idx, md_days,
                       Append(res, [lord |-> L, start |-> t, end |-> end, dur |-> dur]))

antar_segments_shifted(md_lord, md_start_utc, md_days) ==
    AntarLoop(0, md_start_utc, (OrderIndex(md_lord) + 1) % 9, md_days, <<>>)

\* antar_segments_in_md_utc(md_lord, md_start_utc, md_days): (L, start, end, dur) x 9
antar_segments_in_md_utc(md_lord, md_start_utc, md_days) ==
    AntarLoop(0, md_start_utc, OrderIndex(md_lord), md_days, <<>>)

\* the loop of pratyantars_in_antar_utc
RECURSIVE PratyantarLoop(_, _, _, _, _)
PratyantarLoop(i, t, start_idx, antar_days, res) ==
    IF i = 9 THEN res
    ELSE LET L   == OrderAt((start_idx + i) % 9)
             dur == YEARS[L] * (antar_days \div 120)
             end == t + dur
         IN  PratyantarLoop(i + 1, end, start_idx, antar_days,
                            Append(res, [lord |-> L, start |-> t, end |-> end]))

\* pratyantars_in_antar_utc(antar_lord, antar_start_utc, antar_days): (L, start, end) x 9
pratyantars_in_antar_utc(antar_lord, antar_start_utc, antar_days) ==
    PratyantarLoop(0, antar_start_utc, OrderIndex(antar_lord), antar_days, <<>>)

RECURSIVE MahadashaLoop_noMin(_, _, _, _)
MahadashaLoop_noMin(t, idx, end_limit, segments) ==
    IF ~(t < end_limit) THEN segments
    ELSE LET L        == OrderAt(idx)
             dur_days == YEARS[L] * YEAR_DAYS
             end      == t + dur_days
         IN  MahadashaLoop_noMin(end, (idx + 1) % 9, end_limit,
                                 Append(segments,
                                        [planet |-> L, start |-> t, end |-> end,
                                         days |-> dur_days]))

\* the while loop of build_mahadashas_days_utc
RECURSIVE MahadashaLoop(_, _, _, _)
MahadashaLoop(t, idx, end_limit, segments) ==
    IF ~(t < end_limit) THEN segments
    ELSE LET L        == OrderAt(idx)
             dur_days == YEARS[L] * YEAR_DAYS
             end      == Min2(t + dur_days, end_limit)
         IN  MahadashaLoop(end, (idx + 1) % 9, end_limit,
                           Append(segments,
                                  [planet |-> L, start |-> t, end |-> end,
                                   days |-> dur_days]))

\* build_mahadashas_days_utc(birth_utc_dt, moon_sid)
build_mahadashas_days_utc(b, m) ==
    LET mb           == moon_balance_days(m)
        end_limit    == b + 100 * YEAR_DAYS
        birth_md_end == Min2(b + mb.days, end_limit)
        first        == [planet |-> mb.lord, start |-> b, end |-> birth_md_end,
                         days |-> mb.days]
    IN  MahadashaLoop(birth_md_end, (OrderIndex(mb.lord) + 1) % 9, end_limit,
                      <<first>>)

\* rows.sort(key=lambda r: r["end"]): a stable sort, here by insertion
RECURSIVE InsertByEnd(_, _)
InsertByEnd(sorted, r) ==
    IF sorted = <<>> THEN <<r>>
    ELSE IF Head(sorted).end <= r.end
         THEN <<Head(sorted)>> \o InsertByEnd(Tail(sorted), r)
         ELSE <<r>> \o sorted

RECURSIVE SortByEnd(_)
SortByEnd(rs) ==
    IF rs = <<>> THEN <<>>
    ELSE InsertByEnd(SortByEnd(SubSeq(rs, 1, Len(rs) - 1)), rs[Len(rs)])

\* the inner loop of next_antar_in_days_utc over the Antardashas of one Mahadasha
RECURSIVE AntarRows(_, _, _, _, _)
AntarRows(MD, as, j, now_utc, horizon) ==
    IF j > Len(as) THEN <<>>
    ELSE LET a == as[j]
         IN  (IF a.end < now_utc \/ a.start > horizon
              THEN <<>>
              ELSE <<[major |-> MD, antar |-> a.lord, end |-> Min2(a.end, horizon)]>>)
             \o AntarRows(MD, as, j + 1, now_utc, horizon)

\* the outer loop of next_antar_in_days_utc over md_segments
RECURSIVE SegmentRows(_, _, _, _)
SegmentRows(segs, k, now_utc, horizon) ==
    IF k > Len(segs) THEN <<>>
    ELSE LET seg == segs[k]
         IN  AntarRows(seg.planet,
                       antar_segments_in_md_utc(seg.planet, seg.start, seg.days),
                       1, now_utc, horizon)
             \o SegmentRows(segs, k + 1, now_utc, horizon)

\* next_antar_in_days_utc(now_utc, md_segments, days_window)
next_antar_in_days_utc(now_utc, segs, days_window) ==
    SortByEnd(SegmentRows(segs, 1, now_utc, now_utc + days_window))

----------------------------------------------------------------------------
(* Dasha engine: inputs and calls.  dop is the place in the flow: the balance *)
(* and the Mahadasha list are computed from the birth data, then either the  *)
(* Antardashas of one Mahadasha and the Pratyantardashas of one of them, or  *)
(* the upcoming-Antardasha query; a direct call subdivides any parent.       *)

\* nakshatra slots the Moon is drawn from: -1 (a negative longitude) .. MaxSlot,
\* and the last slot of the circle and the first one past 360 degrees
MaxSlot == 10

\* birth instants 0 .. MaxBirth, in steps of 777 ticks
MaxBirth == 1

\* parent durations of a direct antar_segments_in_md_utc call: 1 .. MaxDur
\* units of 120 * 120 ticks
MaxDur == 2

\* "now" of the upcoming-Antardasha query: 0 .. MaxNowDecades decades after birth
MaxNowDecades == 10

MoonOffsets == {0, 1, 100, 400, NAK - 1}

MoonSet == {s * NAK + f : s \in (-1 .. MaxSlot) \cup {26, 27}, f \in MoonOffsets}

BirthSet == {777 * b : b \in 0 .. MaxBirth}

DurSet == {120 * 120 * k : k \in 1 .. MaxDur}

\* the app asks for ten years ahead; one year is the short window
WindowSet == {YEAR_DAYS, 10 * YEAR_DAYS}

DashaInputs ==
    /\ birth_utc_dt \in BirthSet
    /\ moon_sid \in MoonSet

\* md_lord, rem_days = moon_balance_days(moon_sid)
MoonBalance ==
    /\ dop = "init"
    /\ dop' = "balance"
    /\ bal' = moon_balance_days(moon_sid)
    /\ acall' = None /\ antars' = <<>>
    /\ pcall' = None /\ pratyantars' = <<>>
    /\ qcall' = None /\ rows' = <<>>
    /\ UNCHANGED <<birth_utc_dt, moon_sid, md_segments>>
    /\ DashaFrame

\* md_segments_utc = build_mahadashas_days_utc(dt_utc, sidelons['Mo'])
BuildMahadashas ==
    /\ dop \in {"init", "balance"}
    /\ dop' = "build"
    /\ md_segments' = build_mahadashas_days_utc(birth_utc_dt, moon_sid)
    /\ bal' = None
    /\ acall' = None /\ antars' = <<>>
    /\ pcall' = None /\ pratyantars' = <<>>
    /\ qcall' = None /\ rows' = <<>>
    /\ UNCHANGED <<birth_utc_dt, moon_sid>>
    /\ DashaFrame

\* antar_segments_in_md_utc(seg["planet"], seg["start"], seg["days"]) for a
\* Mahadasha segment, as next_antar_in_days_utc calls it
AntarOfMahadasha ==
    \E k \in 1 .. Len(md_segments) :
        LET seg == md_segments[k] IN
        /\ dop = "build"
        /\ dop' = "antar"
        /\ acall' = [lord |-> seg.planet, start |-> seg.start, days |-> seg.days,
                     seg |-> k]
        /\ antars' = antar_segments_in_md_utc(seg.planet, seg.start, seg.days)
        /\ bal' = None
        /\ pcall' = None /\ pratyantars' = <<>>
        /\ qcall' = None /\ rows' = <<>>
        /\ UNCHANGED <<birth_utc_dt, moon_sid, md_segments>>
        /\ DashaFrame

\* antar_segments_in_md_utc(lord, start, D) for any lord and duration
AntarCall ==
    \E lord \in Lords, D \in DurSet :
        /\ dop = "init"
        /\ dop' = "antar"
        /\ acall' = [lord |-> lord, start |-> birth_utc_dt, days |-> D, seg |-> 0]
        /\ antars' = antar_segments_in_md_utc(lord, birth_utc_dt, D)
        /\ bal' = None
        /\ pcall' = None /\ pratyantars' = <<>>
        /\ qcall' = None /\ rows' = <<>>
        /\ UNCHANGED <<birth_utc_dt, moon_sid, md_segments>>
        /\ DashaFrame

\* pratyantars_in_antar_utc(AL, as_, adays) for one Antardasha of the last call
PratyantarOfAntar ==
    \E j \in 1 .. Len(antars) :
        LET a == antars[j] IN
        /\ dop = "antar"
        /\ dop' = "pratyantar"
        /\ pcall' = [lord |-> a.lord, start |-> a.start, days |-> a.dur, antar |-> j]
        /\ pratyantars' = pratyantars_in_antar_utc(a.lord, a.start, a.dur)
        /\ bal' = None
        /\ qcall' = None /\ rows' = <<>>
        /\ UNCHANGED <<birth_utc_dt, moon_sid, md_segments, acall, antars>>
        /\ DashaFrame

\* rows_an = next_antar_in_days_utc(now_utc, md_segments_utc, days_window)
NextAntar ==
    \E d \in 0 .. MaxNowDecades, w \in WindowSet :
        LET now_utc == birth_utc_dt + d * 10 * YEAR_DAYS IN
        /\ dop = "build"
        /\ dop' = "query"
        /\ qcall' = [now |-> now_utc, window |-> w]
        /\ rows' = next_antar_in_days_utc(now_utc, md_segments, w)
        /\ bal' = None
        /\ acall' = None /\ antars' = <<>>
        /\ pcall' = None /\ pratyantars' = <<>>
        /\ UNCHANGED <<birth_utc_dt, moon_sid, md_segments>>
        /\ DashaFrame

DashaNext ==
    \/ MoonBalance
    \/ BuildMahadashas
    \/ AntarOfMahadasha
    \/ AntarCall
    \/ PratyantarOfAntar
    \/ NextAntar


----------------------------------------------------------------------------
(* Dasha engine: properties *)

RECURSIVE SumYears(_)
SumYears(k) == IF k = 0 THEN 0 ELSE YEARS[ORDER[k]] + SumYears(k - 1)

RECURSIVE SumDur(_, _)
SumDur(s, k) == IF k = 0 THEN 0 ELSE (s[k].end - s[k].start) + SumDur(s, k - 1)

\* the lord after l in the fixed cyclic order
NextLord(l) == ORDER[((OrderIndex(l) + 1) % 9) + 1]

\* s is the subdivision of the parent c = (lord, start, days): 9 children in
\* cyclic order from the parent's own lord, child i lasting YEARS[lord_i] * D / 120,
\* each starting where the one before it ends
Subdivides(s, c) ==
    /\ Len(s) = 9
    /\ s[1].lord = c.lord
    /\ \A i \in 1 .. 8 : s[i + 1].lord = NextLord(s[i].lord)
    /\ {s[i].lord : i \in 1 .. 9} = Lords
    /\ c.days % 120 = 0
    /\ \A i \in 1 .. 9 : s[i].end - s[i].start = YEARS[s[i].lord] * (c.days \div 120)
    /\ s[1].start = c.start
    /\ \A i \in 1 .. 8 : s[i + 1].start = s[i].end

\* C1: the year allocations of the 9 lords sum to 120; the 9 Antardasha durations
\* of any parent (lord, start, D) sum to D, and the 9 Pratyantardasha durations of
\* any Antardasha sum to that Antardasha's duration.
Thm_C1 ==
    /\ SumYears(Len(ORDER)) = 120
    /\ dop \in {"antar", "pratyantar"} =>
          /\ Len(antars) = 9
          /\ SumDur(antars, 9) = acall.days
          /\ antars[1].dur + antars[2].dur + antars[3].dur + antars[4].dur
               + antars[5].dur + antars[6].dur + antars[7].dur + antars[8].dur
               + antars[9].dur = acall.days
    /\ dop = "pratyantar" =>
          /\ Len(pratyantars) = 9
          /\ SumDur(pratyantars, 9) = pcall.days

\* a Pratyantardasha list of an Antardasha of a Mahadasha of the birth chart
Wit_C1 ==
    /\ dop = "pratyantar"
    /\ acall.seg > 1
    /\ pcall.antar = 5
    /\ pcall.days > 0

\* C2: antar_segments_in_md_utc returns 9 children in the fixed cyclic order from
\* the parent's own lord, each lord once, child i lasting YEARS[lord_i] * D / 120,
\* the first starting at `start` and each later one at the end of the one before;
\* pratyantars_in_antar_utc does the same for an Antardasha.
Thm_C2 ==
    /\ dop \in {"antar", "pratyantar"} =>
          /\ Subdivides(antars, acall)
          /\ \A i \in 1 .. 9 : antars[i].dur = antars[i].end - antars[i].start
    /\ dop = "pratyantar" => Subdivides(pratyantars, pcall)

\* the Pratyantardashas of a Saturn Antardasha in a direct call for a Mercury parent
Wit_C2 ==
    /\ dop = "pratyantar"
    /\ acall.seg = 0
    /\ acall.lord = "Me"
    /\ pcall.lord = "Sa"
    /\ pratyantars[1].lord = "Sa"
    /\ pratyantars[2].lord = "Me"
    /\ pratyantars[3].lord = "Ke"

Claim_C4 ==
    /\ \A k \in 1 .. Len(md_segments) :
          md_segments[k].days = md_segments[k].end - md_segments[k].start
    /\ (dop = "antar" /\ acall.seg > 0) =>
          /\ antars[1].start = md_segments[acall.seg].start
          /\ antars[9].end = md_segments[acall.seg].end

AllAntars ==
    UNION {LET seg == md_segments[k]
               as  == antar_segments_in_md_utc(seg.planet, seg.start, seg.days)
           IN  {[major |-> seg.planet, antar |-> as[j].lord, end |-> as[j].end]
                  : j \in 1 .. 9}
             : k \in 1 .. Len(md_segments)}

\* C6: next_antar_in_days_utc returns one row for exactly the Antardashas whose end
\* lies in [now, now + window], each row's end being that Antardasha's own end,
\* sorted ascending by end.
Claim_C6 ==
    dop = "query" =>
        LET due == {a \in AllAntars :
                      qcall.now <= a.end /\ a.end <= qcall.now + qcall.window}
        IN  /\ {rows[i] : i \in 1 .. Len(rows)} = due
            /\ Len(rows) = Cardinality(due)
            /\ \A i \in 1 .. Len(rows) - 1 : rows[i].end <= rows[i + 1].end

----------------------------------------------------------------------------
(* Degree arithmetic.  Python's x % 360.0 has the sign of the divisor, as % *)
(* here; math.fmod has the sign of the dividend.                            *)

\* math.fmod(x, m)
fmod(x, m) == IF x >= 0 THEN x % m ELSE -((-x) % m)

(* Floats.  A float value is a record [u, t]: u units plus t times a        *)
(* quantity "tiny", positive and smaller than half the spacing of the       *)
(* floats around every nonzero multiple of the unit (1e-30 degree, say).   *)
(* The floats of the model are the multiples of the unit (t = 0) and the   *)
(* multiples of tiny (u = 0).                                              *)

\* the float of x units
Float(x) == [u |-> x, t |-> 0]

\* the float of t tiny
Tiny(t) == [u |-> 0, t |-> t]

\* the float nearest to u units plus t tiny: a nonzero u absorbs the tiny part
FloatRound(u, t) == IF u # 0 THEN Float(u) ELSE Tiny(t)

\* v < 0
FloatNeg(v) == v.u < 0 \/ (v.u = 0 /\ v.t < 0)

\* math.fmod(v, m), which is exact
float_fmod(v, m) == [u |-> fmod(v.u, m), t |-> v.t]

\* v % m for m > 0: the fmod, and m added to it (a float sum) when it is negative
float_rem(v, m) ==
    LET mod == float_fmod(v, m)
    IN  IF FloatNeg(mod) THEN FloatRound(mod.u + m, mod.t) ELSE mod

\* app.py _norm360, on floats
_norm360_float(v) ==
    LET x == float_rem(v, Full)
    IN  IF ~FloatNeg(x) THEN x ELSE FloatRound(x.u + Full, x.t)

\* astro_chalit_swiss.py _degnorm, on floats
_degnorm_float(v) ==
    LET x == float_rem(v, Full)
    IN  IF ~FloatNeg(x) THEN x ELSE FloatRound(x.u + Full, x.t)

\* chalit_kundali_renderer.py _norm, on floats
_norm_float(v) ==
    LET x == float_rem(v, Full)
    IN  IF FloatNeg(x) THEN FloatRound(x.u + Full, x.t) ELSE x

\* chalit_kundali_vml.py _n360, on floats
_n360_float(v) ==
    LET x == float_fmod(v, Full)
    IN  IF ~FloatNeg(x) THEN x ELSE FloatRound(x.u + Full, x.t)

\* app.py _norm360, of a multiple of the unit
_norm360(x) == _norm360_float(Float(x)).u

\* astro_chalit_swiss.py _degnorm, of a multiple of the unit
_degnorm(x) == _degnorm_float(Float(x)).u

\* chalit_kundali_renderer.py _norm, of a multiple of the unit
_norm(x) == _norm_float(Float(x)).u

\* chalit_kundali_vml.py _n360, of a multiple of the unit
_n360(x) == _n360_float(Float(x)).u

\* chalit_kundali_vml.py _fwd_arc
_fwd_arc(a, b) == (b - a) % Full

\* round(v * 3600.0) / 3600.0 for v >= 0: to the nearest arc-second, a tie to the
\* even one (Python's round)
RoundArcSec(v) ==
    LET q == v \div ArcSec
        r == v % ArcSec
    IN  IF 2 * r < ArcSec THEN q * ArcSec
        ELSE IF 2 * r > ArcSec THEN (q + 1) * ArcSec
        ELSE (IF q % 2 = 0 THEN q ELSE q + 1) * ArcSec

----------------------------------------------------------------------------
(* House System Engine *)

\* app.py compute_chalit_cusps_arrays, given what swe.houses_ex(jd, lat, lon, b'O')
\* and swe.get_ayanamsa_ut(jd) returned: (begins_sid, mids_sid), index 0 None
compute_chalit_cusps_arrays(ct, a) ==
    LET cusps_sid == [i \in 1 .. 12 |-> RoundArcSec((ct[i - 1] - a) % Full)]
        begin(i)  ==
            LET prev_cusp == IF i = 1 THEN cusps_sid[12] ELSE cusps_sid[i - 1]
                this_cusp == cusps_sid[i]
                arc       == (this_cusp - prev_cusp) % Full
            IN  RoundArcSec((prev_cusp + arc \div 2) % Full)
    IN  [begins |-> [i \in 0 .. 12 |-> IF i = 0 THEN None ELSE begin(i)],
         mids   |-> [i \in 0 .. 12 |-> IF i = 0 THEN None ELSE cusps_sid[i]]]

\* astro_chalit_swiss.py _sign_index_from_lon
_sign_index_from_lon(lon) == _degnorm(lon) \div (30 * Deg)

\* astro_chalit_swiss.py get_chalit_begins_mids_swiss, given the (cusps, ascmc) that
\* swe.houses_ex(jd_ut, lat, lon, b"O", FLG_SIDEREAL) returned: cusps is a Python
\* tuple (a function on 0 .. len - 1), of 13 values with a dummy first in the older
\* layout and of 12 in the newer; n is its length.  (begins, mids, asc_sid); the
\* lists have the placeholder 0.0 at index 0.
get_chalit_begins_mids_swiss(cusps, n, ascmc0) ==
    LET raw_cusps == [i \in 0 .. 11 |->
                        IF n >= 13 THEN _degnorm(cusps[i + 1]) ELSE _degnorm(cusps[i])]
        midpoint(i) ==
            LET current_cusp == raw_cusps[i]
                nxt          == raw_cusps[(i + 1) % 12]
                next_cusp    == IF nxt < current_cusp THEN nxt + Full ELSE nxt
                arc          == next_cusp - current_cusp
            IN  _degnorm(current_cusp + arc \div 2)
    IN  [begins  |-> [i \in 0 .. 12 |-> IF i = 0 THEN 0 ELSE midpoint(i - 1)],
         mids    |-> [i \in 0 .. 12 |-> IF i = 0 THEN 0 ELSE raw_cusps[i - 1]],
         asc_sid |-> _sign_index_from_lon(_degnorm(ascmc0)) + 1]

----------------------------------------------------------------------------
(* House Assignment Engine *)

\* chalit_kundali_vml.py _house_chalit: begins is the 1-based list
RECURSIVE HouseChalitLoop(_, _, _)
HouseChalitLoop(B, L, n) ==
    IF n > 12 THEN 12
    ELSE LET a == B[n]
             b == IF n = 12 THEN B[1] ELSE B[n + 1]
         IN  IF _fwd_arc(a, L) < _fwd_arc(a, b) THEN n
             ELSE HouseChalitLoop(B, L, n + 1)

_house_chalit(B, lon) == HouseChalitLoop(B, _n360(lon), 1)

_is_between_ccw_closed(x, start, end) ==
    LET xn == _norm360(x)
        sn == _norm360(start)
        en == _norm360(end)
    IN  IF sn <= en THEN sn <= xn /\ xn <= en
        ELSE xn >= sn \/ xn <= en

\* app.py _is_between_ccw
_is_between_ccw(x, start, end) ==
    LET xn == _norm360(x)
        sn == _norm360(start)
        en == _norm360(end)
    IN  IF sn <= en THEN sn <= xn /\ xn < en
        ELSE xn >= sn \/ xn < en

\* app.py chalit_house_index_of_lon: begins_sid is the 1-based list
RECURSIVE ChalitIndexLoop(_, _, _)
ChalitIndexLoop(lon, B, i) ==
    IF i > 12 THEN 12
    ELSE LET start == B[i]
             end   == IF i = 12 THEN B[1] ELSE B[i + 1]
         IN  IF _is_between_ccw(lon, start, end) THEN i
             ELSE ChalitIndexLoop(lon, B, i + 1)

chalit_house_index_of_lon(lon, B) == ChalitIndexLoop(lon, B, 1)

\* the fallback of house_index_for_lon_chalit: max(range(12), key = (d < 180, -d))
\* with d = _norm(lon - begins[k]) % 360; Python's max keeps the first maximum
ChalitFallback(lon, B0) ==
    LET d(k)      == _norm(lon - B0[k]) % Full
        near(k)   == d(k) < 180 * Deg
        \* key(j) > key(k) on the tuples (near, -d)
        above(j, k) == \/ near(j) /\ ~near(k)
                       \/ near(j) = near(k) /\ d(j) < d(k)
    IN  CHOOSE k \in 0 .. 11 :
            /\ \A j \in 0 .. 11 : ~above(j, k)
            /\ \A j \in 0 .. k - 1 : above(k, j)

\* chalit_kundali_renderer.py house_index_for_lon_chalit: begins_sid is the
\* 0-based list of 12
RECURSIVE RendererLoop(_, _, _)
RendererLoop(lon, B0, i) ==
    IF i > 11 THEN ChalitFallback(lon, B0) + 1
    ELSE LET a   == B0[i]
             b   == B0[(i + 1) % 12]
             da  == (lon - a) % Full
             dab == (b - a) % Full
         IN  IF (b - a) % Full = 0 THEN RendererLoop(lon, B0, i + 1)
             ELSE IF 0 <= da /\ da < dab THEN i + 1
             ELSE RendererLoop(lon, B0, i + 1)

house_index_for_lon_chalit(lon, B0) == RendererLoop(_norm(lon), B0, 0)

rasi_house_of_lon_mod0(lon, lagna) ==
    LET sign == (_norm(lon) \div (30 * Deg)) + 1
    IN  (sign - lagna + 1) % 12

\* chalit_kundali_renderer.py rasi_house_of_lon
rasi_house_of_lon(lon, lagna) ==
    LET sign == (_norm(lon) \div (30 * Deg)) + 1
    IN  ((sign - lagna) % 12) + 1

\* app.py planet_rasi_sign
planet_rasi_sign(lon) == (lon \div (30 * Deg)) + 1

\* app.py build_rasi_house_planets_marked: the house h of one planet
rasi_house_marked(lon, lagna) ==
    LET sign == planet_rasi_sign(lon)
    IN  ((sign - lagna) % 12) + 1

----------------------------------------------------------------------------
(* House engine: inputs and calls.  hop is the place in the flow: the cusp    *)
(* arrays are computed from the ephemeris values, then a longitude is mapped  *)
(* to its Chalit house.                                                       *)

\* at most MaxPerturbed of the 12 cusps lie off the whole arc-second
MaxPerturbed == 1

\* a quarter of an arc-second
Nudge == ArcSec \div 4

\* tropical ascendants (cusp 1)
AscSet == {24 * Deg, 5 * Deg, 200 * Deg + ArcSec}

\* the arc from the ascendant to the IC: houses 1-3 and 7-9 take a third of it
\* each, houses 4-6 and 10-12 a third of the rest of the half circle (Porphyry)
QuadSet == {90 * Deg, 72 * Deg}

\* ayanamsa values: a whole number of arc-seconds, and half an arc-second more
AySet == {24 * Deg, 24 * Deg + ArcSec \div 2}

\* the width of house j
HouseWidth(q, j) ==
    IF j \in {1, 2, 3, 7, 8, 9} THEN q \div 3 ELSE (180 * Deg - q) \div 3

RECURSIVE CuspOffset(_, _)
CuspOffset(q, i) == IF i = 1 THEN 0 ELSE CuspOffset(q, i - 1) + HouseWidth(q, i - 1)

\* the tuple of 12 tropical cusps of swe.houses_ex: forward around the circle
\* from the ascendant, the cusps in S nudged
CuspTuple(asc, q, S) ==
    [i \in 0 .. 11 |->
        (asc + CuspOffset(q, i + 1) + (IF (i + 1) \in S THEN Nudge ELSE 0)) % Full]

CuspTuples ==
    {CuspTuple(asc, q, S) :
        asc \in AscSet, q \in QuadSet,
        S \in {T \in SUBSET (1 .. 12) : Cardinality(T) <= MaxPerturbed}}

\* the sidereal cusps swe.houses_ex returns under FLG_SIDEREAL
SiderealCusps == [i \in 0 .. 11 |-> (cusps_trop[i] - ay) % Full]

\* the longitudes handed to the assignment functions: on, just before and just
\* after every begin, and values outside [0, 360)
LonSet ==
    {begins[n] + d : n \in 1 .. 12, d \in {-1, 0, 1}} \cup {0 - 90 * Deg, 400 * Deg}

HouseInputs ==
    /\ cusps_trop \in CuspTuples
    /\ ay \in AySet
    /\ lagna_sign = 0
    /\ swept = 0

\* begins_sid, mids_sid = compute_chalit_cusps_arrays(jd, lat, lon)
CallComputeChalit ==
    /\ hop = "init"
    /\ LET r == compute_chalit_cusps_arrays(cusps_trop, ay)
       IN  /\ begins' = r.begins
           /\ mids' = r.mids
    /\ engine' = "compute_chalit_cusps_arrays"
    /\ hop' = "cusps"
    /\ UNCHANGED <<cusps_trop, ay, asc_sid, lon_sid, hfun, house, lagna_sign, swept>>
    /\ HouseFrame

\* begins_sid, mids_sid, asc_sid = get_chalit_begins_mids_swiss(jd, lat, lon)
CallSwiss ==
    \E n \in {12, 13} :
        /\ hop = "init"
        /\ LET cusps == IF n = 13
                        THEN [i \in 0 .. 12 |-> IF i = 0 THEN 0 ELSE SiderealCusps[i - 1]]
                        ELSE SiderealCusps
               r == get_chalit_begins_mids_swiss(cusps, n, SiderealCusps[0])
           IN  /\ begins' = r.begins
               /\ mids' = r.mids
               /\ asc_sid' = r.asc_sid
        /\ engine' = "get_chalit_begins_mids_swiss"
        /\ hop' = "cusps"
        /\ UNCHANGED <<cusps_trop, ay, lon_sid, hfun, house, lagna_sign, swept>>
        /\ HouseFrame

\* h_c = _house_chalit(begins_sid, lon)
AssignVml ==
    /\ hop = "cusps"
    /\ \E lon \in LonSet :
            /\ lon_sid' = lon
            /\ hfun' = "_house_chalit"
            /\ house' = _house_chalit(begins, lon)
            /\ hop' = "assigned"
            /\ UNCHANGED <<cusps_trop, ay, engine, begins, mids, asc_sid, lagna_sign, swept>>
            /\ HouseFrame

\* h = chalit_house_index_of_lon(sidelons[code], begins_sid)
AssignApp ==
    /\ hop = "cusps"
    /\ \E lon \in LonSet :
            /\ lon_sid' = lon
            /\ hfun' = "chalit_house_index_of_lon"
            /\ house' = chalit_house_index_of_lon(lon, begins)
            /\ hop' = "assigned"
            /\ UNCHANGED <<cusps_trop, ay, engine, begins, mids, asc_sid, lagna_sign, swept>>
            /\ HouseFrame

\* chalit_h = house_index_for_lon_chalit(lon, begins_sid), begins_sid the list of
\* 12 for H1..H12
AssignRenderer ==
    /\ hop = "cusps"
    /\ \E lon \in LonSet :
            /\ lon_sid' = lon
            /\ hfun' = "house_index_for_lon_chalit"
            /\ house' = house_index_for_lon_chalit(lon, [i \in 0 .. 11 |-> begins[i + 1]])
            /\ hop' = "assigned"
            /\ UNCHANGED <<cusps_trop, ay, engine, begins, mids, asc_sid, lagna_sign, swept>>
            /\ HouseFrame

HouseNext ==
    \/ CallComputeChalit
    \/ CallSwiss
    \/ AssignVml
    \/ AssignApp
    \/ AssignRenderer

----------------------------------------------------------------------------
(* Rasi house assignment: a longitude moves once around the circle from the   *)
(* start of the lagna sign, and its house is computed wherever it stands.     *)

\* the steps lon_sid moves by: a third of a sign, one unit less than a sign, and
\* 125.3 degrees
SweepSteps == {10 * Deg, 30 * Deg - 1, (1253 * Deg) \div 10}

RasiInputs ==
    /\ lagna_sign \in 1 .. 12
    /\ lon_sid = (lagna_sign - 1) * 30 * Deg
    /\ swept = 0
    /\ hop = "rasi"
    /\ cusps_trop = None /\ ay = 0
    /\ engine = "none" /\ begins = None /\ mids = None /\ asc_sid = 0
    /\ hfun = "none" /\ house = 0

\* the next longitude of the sweep
Sweep ==
    \E d \in SweepSteps :
        /\ hop = "rasi"
        /\ swept + d < Full
        /\ swept' = swept + d
        /\ lon_sid' = (lon_sid + d) % Full
        /\ hfun' = "none"
        /\ house' = 0
        /\ UNCHANGED <<cusps_trop, ay, hop, engine, begins, mids, asc_sid, lagna_sign>>
        /\ HouseFrame

\* rasi_h = rasi_house_of_lon(lon, lagna_sign)
RasiHouseRenderer ==
    /\ hop = "rasi"
    /\ hfun' = "rasi_house_of_lon"
    /\ house' = rasi_house_of_lon(lon_sid, lagna_sign)
    /\ UNCHANGED <<cusps_trop, ay, hop, engine, begins, mids, asc_sid, lon_sid,
                   lagna_sign, swept>>
    /\ HouseFrame

\* h = ((sign - lagna_sign) % 12) + 1 in build_rasi_house_planets_marked
RasiHouseMarked ==
    /\ hop = "rasi"
    /\ hfun' = "build_rasi_house_planets_marked"
    /\ house' = rasi_house_marked(lon_sid, lagna_sign)
    /\ UNCHANGED <<cusps_trop, ay, hop, engine, begins, mids, asc_sid, lon_sid,
                   lagna_sign, swept>>
    /\ HouseFrame

RasiNext ==
    \/ Sweep
    \/ RasiHouseRenderer
    \/ RasiHouseMarked

----------------------------------------------------------------------------
(* Specifications *)

DashaInit == DashaInputs /\ DashaIdle /\ HouseOff /\ CallIdle /\ SidOff

HouseInit == HouseInputs /\ HouseIdle /\ DashaOff /\ CallIdle /\ SidOff

RasiInit == RasiInputs /\ DashaOff /\ CallIdle /\ SidOff

SpecDasha == DashaInit /\ [][DashaNext]_vars

SpecHouse == HouseInit /\ [][HouseNext]_vars

SpecRasi == RasiInit /\ [][RasiNext]_vars

----------------------------------------------------------------------------
(* House engine: properties *)

\* the distance between two longitudes around the circle
CircDist(a, b) == Min2((a - b) % Full, (b - a) % Full)

\* the midpoint of the forward arc from a to b
ArcMidpoint(a, b) == (a + ((b - a) % Full) \div 2) % Full

\* the house after n
NextHouse(n) == (n % 12) + 1

\* the house before n
PrevHouse(n) == ((n + 10) % 12) + 1

\* C7: for every house i, begin[i] is the midpoint of the forward arc from
\* mid[i-1] (mid[12] for i = 1) to mid[i], to the arc-second, and mid[i] is the
\* i-th sidereal cusp, to the arc-second; for get_chalit_begins_mids_swiss as for
\* compute_chalit_cusps_arrays.
Claim_C7 ==
    hop \in {"cusps", "assigned"} =>
        \A i \in 1 .. 12 :
            /\ 2 * CircDist(mids[i], SiderealCusps[i - 1]) <= ArcSec
            /\ 2 * CircDist(begins[i], ArcMidpoint(mids[PrevHouse(i)], mids[i])) <= ArcSec

\* C8: the 12 forward arcs begin[i] -> begin[(i mod 12) + 1] sum to one full
\* circle, and every begin and mid value is >= 0 and < 360.
RECURSIVE SumArcs(_, _)
SumArcs(B, n) ==
    IF n = 0 THEN 0 ELSE _fwd_arc(B[n], B[NextHouse(n)]) + SumArcs(B, n - 1)

Claim_C8 ==
    hop \in {"cusps", "assigned"} =>
        /\ SumArcs(begins, 12) = Full
        /\ \A i \in 1 .. 12 :
              /\ 0 <= begins[i] /\ begins[i] < Full
              /\ 0 <= mids[i] /\ mids[i] < Full

\* begins in forward circular order, no two consecutive ones equal
ForwardOrdered(B) ==
    /\ SumArcs(B, 12) = Full
    /\ \A n \in 1 .. 12 : _fwd_arc(B[n], B[NextHouse(n)]) > 0

\* L lies in the half-open forward arc from begin[n] to begin[n+1]
InHouse(B, L, n) == (L - B[n]) % Full < (B[NextHouse(n)] - B[n]) % Full

\* C9: for begins in forward circular order with no two consecutive ones equal,
\* every longitude lies in the half-open arc of exactly one house n and each of
\* the three Chalit assignment functions returns that n; a longitude equal to
\* begin[n+1] is in house n+1, not n, also across 0/360.
Thm_C9 ==
    (hop = "assigned" /\ ForwardOrdered(begins)) =>
        /\ house \in 1 .. 12
        /\ InHouse(begins, lon_sid, house)
        /\ \A n \in 1 .. 12 : InHouse(begins, lon_sid, n) => n = house
        /\ \A n \in 1 .. 12 :
              (lon_sid - begins[NextHouse(n)]) % Full = 0 => house = NextHouse(n)

\* a longitude on the begin that ends a house lying across 0/360
Wit_C9 ==
    /\ hop = "assigned"
    /\ hfun = "chalit_house_index_of_lon"
    /\ ForwardOrdered(begins)
    /\ \E n \in 1 .. 12 :
          /\ begins[n] > begins[NextHouse(n)]
          /\ begins[NextHouse(n)] > 0
          /\ lon_sid = begins[NextHouse(n)]
          /\ house = NextHouse(n)

\* C10: rasi_house_of_lon(L, S) = ((floor(L/30) + 1 - S) mod 12) + 1 for L in
\* [0, 360) and S in 1..12; as L moves once around the circle from the start of
\* sign S the house is 1, 2, ..., 12 in that order, one 30-degree arc each;
\* L = 125.3, S = 1 gives house 5.
Thm_C10 ==
    (hop = "rasi" /\ hfun # "none") =>
        /\ 0 <= lon_sid /\ lon_sid < Full
        /\ house = (((lon_sid \div (30 * Deg)) + 1 - lagna_sign) % 12) + 1
        /\ house = (swept \div (30 * Deg)) + 1
        /\ (10 * lon_sid = 1253 * Deg /\ lagna_sign = 1) => house = 5

\* 125.3 degrees with Aries rising
Wit_C10 ==
    /\ hop = "rasi"
    /\ hfun = "rasi_house_of_lon"
    /\ 10 * lon_sid = 1253 * Deg
    /\ lagna_sign = 1
    /\ house = 5

----------------------------------------------------------------------------
(* The normalisation helpers, called on their own *)

\* how many full turns either way an input lies from [0, 360)
MaxTurns == 2

\* offsets within one turn: its ends, the unit next to them, and inner points
TurnOffsets == {0, 1, ArcSec, 90 * Deg, 180 * Deg, Full - 1}

\* the degree values handed in: negative, zero, at and beyond 360, and the two
\* floats next to 0.0
NormInputs ==
    {Float(k * Full + d) : k \in (0 - MaxTurns) .. MaxTurns, d \in TurnOffsets}
        \cup {Tiny(0 - 1), Tiny(1)}

\* the helpers' names
NormHelpers == {"_norm360", "_degnorm", "_norm", "_n360"}

\* x = _norm360(x)
CallNorm360 ==
    /\ fn = "none"
    /\ \E x \in NormInputs :
        /\ fn' = "_norm360"
        /\ arg' = x
        /\ ret' = [once |-> _norm360_float(x),
                   twice |-> _norm360_float(_norm360_float(x))]
    /\ CallFrame

\* x = _degnorm(x)
CallDegnorm ==
    /\ fn = "none"
    /\ \E x \in NormInputs :
        /\ fn' = "_degnorm"
        /\ arg' = x
        /\ ret' = [once |-> _degnorm_float(x),
                   twice |-> _degnorm_float(_degnorm_float(x))]
    /\ CallFrame

\* x = _norm(x)
CallNorm ==
    /\ fn = "none"
    /\ \E x \in NormInputs :
        /\ fn' = "_norm"
        /\ arg' = x
        /\ ret' = [once |-> _norm_float(x),
                   twice |-> _norm_float(_norm_float(x))]
    /\ CallFrame

\* x = _n360(x)
CallN360 ==
    /\ fn = "none"
    /\ \E x \in NormInputs :
        /\ fn' = "_n360"
        /\ arg' = x
        /\ ret' = [once |-> _n360_float(x),
                   twice |-> _n360_float(_n360_float(x))]
    /\ CallFrame

NormNext == CallNorm360 \/ CallDegnorm \/ CallNorm \/ CallN360

NormInit == CallIdle /\ DashaOff /\ HouseOff /\ SidOff

SpecNorm == NormInit /\ [][NormNext]_vars

\* 0 <= v < 360
InCircle(v) == ~FloatNeg(v) /\ v.u < Full

\* v and w differ by a whole number of turns
Congruent(v, w) == (v.u - w.u) % Full = 0 /\ v.t = w.t

\* C11: whatever the degree value x, negative, zero or at least 360, each of
\* _norm360, _degnorm, _norm and _n360 returns a value in [0, 360) congruent to
\* x modulo 360, and the helper applied twice gives what it gives applied once.
Claim_C11 ==
    fn \in NormHelpers =>
        /\ InCircle(ret.once)
        /\ Congruent(ret.once, arg)
        /\ ret.twice = ret.once

\* the same, of the inputs that are multiples of the unit
NormOfUnits ==
    (fn \in NormHelpers /\ arg.t = 0) =>
        /\ InCircle(ret.once)
        /\ Congruent(ret.once, arg)
        /\ ret.twice = ret.once

----------------------------------------------------------------------------
(* Planet statuses: signs, Navamsa, combustion, exaltation, debilitation.   *)
(* Longitudes are in the units of the house engine (Deg to the degree).    *)

\* the planet codes, in the order of the loops over them
PLANETS == <<"Su", "Mo", "Ma", "Me", "Ju", "Ve", "Sa", "Ra", "Ke">>

\* d.get(k) == v, for a value v that is not None
GetIs(d, k, v) == k \in DOMAIN d /\ d[k] = v

\* app.py SIGN_LORD
SIGN_LORD ==
    <<"Ma", "Ve", "Me", "Mo", "Su", "Me", "Ve", "Ma", "Ju", "Sa", "Sa", "Ju">>

\* app.py EXALT_SIGN
EXALT_SIGN ==
    [Su |-> 1, Mo |-> 2, Ma |-> 10, Me |-> 6, Ju |-> 4, Ve |-> 12, Sa |-> 7,
     Ra |-> 2, Ke |-> 8]

\* DEBIL_SIGN with the Sun's entry that of EXALT_SIGN
DEBIL_SIGN_sunAsExalted ==
    [Su |-> 1, Mo |-> 8, Ma |-> 4, Me |-> 12, Ju |-> 10, Ve |-> 6, Sa |-> 1,
     Ra |-> 8, Ke |-> 2]

\* app.py DEBIL_SIGN
DEBIL_SIGN ==
    [Su |-> 7, Mo |-> 8, Ma |-> 4, Me |-> 12, Ju |-> 10, Ve |-> 6, Sa |-> 1,
     Ra |-> 8, Ke |-> 2]

\* app.py REQUIRE_SAME_SIGN_FOR_COMBUST as the file sets it
REQUIRE_SAME_SIGN_FOR_COMBUST == FALSE

\* app.py COMBUST_ORB
COMBUST_ORB ==
    [Mo |-> 12 * Deg, Ma |-> 17 * Deg, Me |-> 12 * Deg, Ju |-> 11 * Deg,
     Ve |-> 10 * Deg, Sa |-> 15 * Deg]

\* abs(x)
abs(x) == IF x < 0 THEN 0 - x ELSE x

\* _min_circ_angle without the fold of the arc beyond 180 degrees
_min_circ_angle_unfolded(a, b) == abs((a - b) % Full)

\* app.py _min_circ_angle
_min_circ_angle(a, b) ==
    LET d == abs((a - b) % Full)
    IN  IF d <= 180 * Deg THEN d ELSE Full - d

\* x // (30.0 / 9.0) for 0 <= x < 30: the float 30.0 / 9.0 lies just above
\* 10/3, so a multiple of 10/3 that is a whole number of degrees, hence a float
\* itself (10.0 and 20.0), falls short of its own multiple
floordiv_pada(x) ==
    LET w == (30 * Deg) \div 9
        q == x \div w
    IN  IF x > 0 /\ x % w = 0 /\ x % Deg = 0 THEN q - 1 ELSE q

\* navamsa_sign_from_lon_sid counting from the sign itself in every sign
navamsa_sign_counted_from_sign(lon) ==
    LET sign == (lon \div (30 * Deg)) + 1
        pada == floordiv_pada(lon % (30 * Deg))
    IN  ((sign - 1 + pada) % 12) + 1

\* app.py navamsa_sign_from_lon_sid
navamsa_sign_from_lon_sid(lon) ==
    LET sign        == (lon \div (30 * Deg)) + 1
        deg_in_sign == lon % (30 * Deg)
        pada        == floordiv_pada(deg_in_sign)
        start       == IF sign \in {1, 4, 7, 10} THEN sign
                       ELSE IF sign \in {2, 5, 8, 11} THEN ((sign + 8 - 1) % 12) + 1
                       ELSE ((sign + 4 - 1) % 12) + 1
    IN  ((start - 1 + pada) % 12) + 1

\* app.py compute_statuses_all, the same-sign setting made a parameter
compute_statuses_all(sidelons, require_same_sign) ==
    LET sun_lon == IF "Su" \in DOMAIN sidelons THEN sidelons["Su"] ELSE 0
    IN  [code \in {PLANETS[i] : i \in 1 .. 9} |->
            LET lon  == sidelons[code]
                rasi == planet_rasi_sign(lon)
                nav  == navamsa_sign_from_lon_sid(lon)
                sep  == _min_circ_angle(lon, sun_lon)
                combust ==
                    IF code \in DOMAIN COMBUST_ORB /\ code # "Su"
                    THEN IF ~require_same_sign
                            \/ planet_rasi_sign(lon) = planet_rasi_sign(sun_lon)
                         THEN sep <= COMBUST_ORB[code]
                         ELSE FALSE
                    ELSE FALSE
                st == [rasi       |-> rasi,
                       nav        |-> nav,
                       vargottama |-> (rasi = nav),
                       combust    |-> combust,
                       self_rasi  |-> GetIs(SIGN_LORD, rasi, code),
                       self_nav   |-> GetIs(SIGN_LORD, nav, code),
                       exalt_rasi |-> GetIs(EXALT_SIGN, code, rasi),
                       exalt_nav  |-> GetIs(EXALT_SIGN, code, nav),
                       debil_rasi |-> GetIs(DEBIL_SIGN, code, rasi),
                       debil_nav  |-> GetIs(DEBIL_SIGN, code, nav)]
            IN  IF code \in {"Ra", "Ke"}
                THEN [st EXCEPT !.exalt_rasi = FALSE, !.exalt_nav = FALSE,
                                !.debil_rasi = FALSE, !.debil_nav = FALSE]
                ELSE st]

\* app.py _make_flags
_make_flags(view, st) ==
    IF view = "nav"
    THEN [self |-> st.self_nav, exalted |-> st.exalt_nav,
          debilitated |-> st.debil_nav, vargottama |-> st.vargottama,
          combust |-> FALSE]
    ELSE [self |-> st.self_rasi, exalted |-> st.exalt_rasi,
          debilitated |-> st.debil_rasi, vargottama |-> st.vargottama,
          combust |-> st.combust]

\* app.py fmt_planet_label: the planet's code and the marks after it
fmt_planet_label(code, flags) ==
    <<code>> \o (IF flags.exalted THEN <<"up">> ELSE <<>>)
             \o (IF flags.debilitated THEN <<"down">> ELSE <<>>)
             \o (IF flags.combust THEN <<"^">> ELSE <<>>)

\* {i: [] for i in range(1, 13)}
EmptyHouseMap == [h \in 1 .. 12 |-> <<>>]

\* house_map[h].append(e)
HouseAppend(house_map, h, e) == [house_map EXCEPT ![h] = Append(@, e)]

\* the loop of build_rasi_house_planets_marked from planet i on
RECURSIVE RasiMarkedLoop(_, _, _, _, _)
RasiMarkedLoop(sidelons, lagna, stats, house_map, i) ==
    IF i > 9 THEN house_map
    ELSE LET code == PLANETS[i]
             sign == planet_rasi_sign(sidelons[code])
             h    == ((sign - lagna) % 12) + 1
             fl   == _make_flags("rasi", stats[code])
             e    == [code |-> code, txt |-> fmt_planet_label(code, fl), flags |-> fl]
         IN  RasiMarkedLoop(sidelons, lagna, stats, HouseAppend(house_map, h, e), i + 1)

\* app.py build_rasi_house_planets_marked
build_rasi_house_planets_marked(sidelons, lagna, require_same_sign) ==
    RasiMarkedLoop(sidelons, lagna, compute_statuses_all(sidelons, require_same_sign),
                   EmptyHouseMap, 1)

\* the loop of build_navamsa_house_planets_marked from planet i on, with the
\* combust flag of _make_flags kept
RECURSIVE NavMarkedLoop_flagKept(_, _, _, _, _)
NavMarkedLoop_flagKept(sidelons, nav_lagna, stats, house_map, i) ==
    IF i > 9 THEN house_map
    ELSE LET code     == PLANETS[i]
             nav_sign == navamsa_sign_from_lon_sid(sidelons[code])
             h        == ((nav_sign - nav_lagna) % 12) + 1
             fl       == _make_flags("nav", stats[code])
             e        == [code |-> code, txt |-> fmt_planet_label(code, fl), flags |-> fl]
         IN  NavMarkedLoop_flagKept(sidelons, nav_lagna, stats,
                                    HouseAppend(house_map, h, e), i + 1)

\* the loop of build_navamsa_house_planets_marked from planet i on
RECURSIVE NavMarkedLoop(_, _, _, _, _)
NavMarkedLoop(sidelons, nav_lagna, stats, house_map, i) ==
    IF i > 9 THEN house_map
    ELSE LET code     == PLANETS[i]
             sun_nav  == stats["Su"].nav
             nav_sign == navamsa_sign_from_lon_sid(sidelons[code])
             h        == ((nav_sign - nav_lagna) % 12) + 1
             fl0      == _make_flags("nav", stats[code])
             fl       == IF code \notin {"Su", "Ra", "Ke"}
                         THEN [fl0 EXCEPT !.combust = (nav_sign = sun_nav)]
                         ELSE [fl0 EXCEPT !.combust = FALSE]
             e        == [code |-> code, txt |-> fmt_planet_label(code, fl), flags |-> fl]
         IN  NavMarkedLoop(sidelons, nav_lagna, stats, HouseAppend(house_map, h, e), i + 1)

\* app.py build_navamsa_house_planets_marked
build_navamsa_house_planets_marked(sidelons, nav_lagna, require_same_sign) ==
    NavMarkedLoop(sidelons, nav_lagna, compute_statuses_all(sidelons, require_same_sign),
                  EmptyHouseMap, 1)

\* kundali_markers_lib.py SELF_SIGNS
SELF_SIGNS ==
    [Su |-> {5}, Mo |-> {4}, Ma |-> {1, 8}, Me |-> {3, 6}, Ju |-> {9, 12},
     Ve |-> {2, 7}, Sa |-> {10, 11}, Ra |-> {}, Ke |-> {}]

\* kundali_markers_lib.py EXALT_SIGN
lib_EXALT_SIGN ==
    [Su |-> 1, Mo |-> 2, Ma |-> 10, Me |-> 6, Ju |-> 4, Ve |-> 12, Sa |-> 7]

\* kundali_markers_lib.py DEBIL_SIGN
lib_DEBIL_SIGN == [p \in DOMAIN lib_EXALT_SIGN |-> ((lib_EXALT_SIGN[p] + 5) % 12) + 1]

\* kundali_markers_lib.py COMB_ORB
COMB_ORB ==
    [Mo |-> 12 * Deg, Ma |-> 17 * Deg, Me |-> 12 * Deg, Ju |-> 11 * Deg,
     Ve |-> 10 * Deg, Sa |-> 15 * Deg, Ra |-> 0, Ke |-> 0]

\* kundali_markers_lib.py _sep_deg
_sep_deg(a, b) ==
    LET d == abs((a - b) % Full)
    IN  IF d <= 180 * Deg THEN d ELSE Full - d

\* kundali_markers_lib.py _rasi_sign
_rasi_sign(lon) == (lon \div (30 * Deg)) + 1

\* a Navamsa count that gives each sign eight parts instead of nine
lib_navamsa_sign_eight_per_sign(lon) ==
    LET rasi == (lon \div (30 * Deg)) + 1
        part == floordiv_pada(lon % (30 * Deg))
    IN  (((rasi - 1) * 8 + part) % 12) + 1

\* kundali_markers_lib.py navamsa_sign_from_lon_sid
lib_navamsa_sign_from_lon_sid(lon) ==
    LET rasi == (lon \div (30 * Deg)) + 1
        part == floordiv_pada(lon % (30 * Deg))
    IN  (((rasi - 1) * 9 + part) % 12) + 1

\* kundali_markers_lib.py _is_combust_d1
_is_combust_d1(code, sidelons) ==
    IF code \notin DOMAIN COMB_ORB \/ COMB_ORB[code] = 0 THEN FALSE
    ELSE _sep_deg(sidelons[code], sidelons["Su"]) <= COMB_ORB[code]

\* kundali_markers_lib.py _is_combust_d9_same_nsign
_is_combust_d9_same_nsign(code, sidelons) ==
    IF code \in {"Su", "Ra", "Ke"} THEN FALSE
    ELSE lib_navamsa_sign_from_lon_sid(sidelons["Su"])
            = lib_navamsa_sign_from_lon_sid(sidelons[code])

\* the marks of the display text: disp = base, += each mark
lib_disp(code, is_ex, is_de, is_cb) ==
    <<code>> \o (IF is_ex THEN <<"up">> ELSE <<>>)
             \o (IF is_de THEN <<"down">> ELSE <<>>)
             \o (IF is_cb THEN <<"^">> ELSE <<>>)

\* the loop of kundali_markers_lib.py build_rasi_house_planets from planet i on
RECURSIVE LibRasiLoop(_, _, _, _, _)
LibRasiLoop(sidelons, lagna, begins_sid, house_map, i) ==
    IF i > 9 THEN house_map
    ELSE LET code == PLANETS[i]
             lon  == sidelons[code]
             rasi == _rasi_sign(lon)
             h    == IF begins_sid # None /\ Len(begins_sid.items) > 0
                     THEN house_index_for_lon_chalit(
                              lon, [k \in 0 .. Len(begins_sid.items) - 1 |->
                                       begins_sid.items[k + 1].num])
                     ELSE ((rasi - lagna) % 12) + 1
             is_ex == code \notin {"Ra", "Ke"} /\ GetIs(lib_EXALT_SIGN, code, rasi)
             is_de == code \notin {"Ra", "Ke"} /\ GetIs(lib_DEBIL_SIGN, code, rasi)
             is_cb == _is_combust_d1(code, sidelons)
             fl   == [self  |-> rasi \in SELF_SIGNS[code],
                      exalt |-> is_ex,
                      debil |-> is_de,
                      comb  |-> is_cb,
                      varg  |-> (rasi = lib_navamsa_sign_from_lon_sid(lon))]
             e    == [code |-> code, txt |-> <<code>>,
                      disp |-> lib_disp(code, is_ex, is_de, is_cb),
                      lon |-> lon, flags |-> fl]
         IN  LibRasiLoop(sidelons, lagna, begins_sid, HouseAppend(house_map, h, e), i + 1)

\* kundali_markers_lib.py build_rasi_house_planets; begins_sid is None when left
\* out, and else a list of numbers (element k is items[k + 1].num)
lib_build_rasi_house_planets(sidelons, lagna, begins_sid) ==
    LibRasiLoop(sidelons, lagna, begins_sid, EmptyHouseMap, 1)

\* the loop of kundali_markers_lib.py build_navamsa_house_planets from planet i on
RECURSIVE LibNavLoop(_, _, _, _)
LibNavLoop(sidelons, nav_lagna, house_map, i) ==
    IF i > 9 THEN house_map
    ELSE LET code  == PLANETS[i]
             lon   == sidelons[code]
             nsign == lib_navamsa_sign_from_lon_sid(lon)
             h     == ((nsign - nav_lagna) % 12) + 1
             is_ex == code \notin {"Ra", "Ke"} /\ GetIs(lib_EXALT_SIGN, code, nsign)
             is_de == code \notin {"Ra", "Ke"} /\ GetIs(lib_DEBIL_SIGN, code, nsign)
             is_cb == _is_combust_d9_same_nsign(code, sidelons)
             fl    == [self  |-> nsign \in SELF_SIGNS[code],
                       exalt |-> is_ex,
                       debil |-> is_de,
                       comb  |-> is_cb,
                       varg  |-> (_rasi_sign(lon) = nsign)]
             e     == [code |-> code, txt |-> <<code>>,
                       disp |-> lib_disp(code, is_ex, is_de, is_cb), flags |-> fl]
         IN  LibNavLoop(sidelons, nav_lagna, HouseAppend(house_map, h, e), i + 1)

\* kundali_markers_lib.py build_navamsa_house_planets
lib_build_navamsa_house_planets(sidelons, nav_lagna) ==
    LibNavLoop(sidelons, nav_lagna, EmptyHouseMap, 1)

----------------------------------------------------------------------------
(* The chart builders, called on the nine sidereal longitudes *)

\* the Sun's longitudes tried: low and high in Aries, either side of 0, in
\* Taurus next to Aries, in Libra
SunSet == {20 * Deg, 25 * Deg, 355 * Deg, 2 * Deg, 32 * Deg, 190 * Deg}

\* where the planets stand when they are not the one moved about: far from
\* every Sun of SunSet, the nodes in the signs their table entries name
RestLon ==
    [Mo |-> 100 * Deg, Ma |-> 130 * Deg, Me |-> 70 * Deg, Ju |-> 250 * Deg,
     Ve |-> 310 * Deg, Sa |-> 280 * Deg, Ra |-> 40 * Deg, Ke |-> 220 * Deg]

\* a separation tried for the planet moved about: around the orbs, and small
SepSet ==
    {0, 4 * Deg, 10 * Deg, 10 * Deg + 1, 11 * Deg, 12 * Deg, 12 * Deg + 1,
     15 * Deg, 17 * Deg, 17 * Deg + 1}

\* the longitudes tried for the planet moved about, the Sun at sun: at each
\* separation either side of the Sun, and 10 degrees into each sign
FocusLons(sun) ==
    {(sun + d) % Full : d \in SepSet} \cup {(sun - d) % Full : d \in SepSet}
        \cup {(k * 30 + 10) * Deg : k \in 0 .. 11}

\* a chart: the Sun at sun, planet p at lon, the others at rest
Chart(sun, p, lon) ==
    [code \in {PLANETS[i] : i \in 1 .. 9} |->
        IF code = "Su" THEN sun ELSE IF code = p THEN lon ELSE RestLon[code]]

\* the lagna signs tried
LagnaSet == {1, 7}

\* house_map = build_rasi_house_planets_marked(sidelons, lagna_sign)
CallRasiMarked ==
    /\ fn = "none"
    /\ \E sun \in SunSet, p \in DOMAIN RestLon, lagna \in LagnaSet, flag \in BOOLEAN :
        \E lon \in FocusLons(sun) :
            /\ fn' = "build_rasi_house_planets_marked"
            /\ arg' = [sidelons |-> Chart(sun, p, lon), lagna_sign |-> lagna,
                       require_same_sign |-> flag]
            /\ ret' = build_rasi_house_planets_marked(Chart(sun, p, lon), lagna, flag)
    /\ CallFrame

\* house_map = build_navamsa_house_planets_marked(sidelons, nav_lagna_sign)
CallNavMarked ==
    /\ fn = "none"
    /\ \E sun \in SunSet, p \in DOMAIN RestLon, lagna \in LagnaSet, flag \in BOOLEAN :
        \E lon \in FocusLons(sun) :
            /\ fn' = "build_navamsa_house_planets_marked"
            /\ arg' = [sidelons |-> Chart(sun, p, lon), lagna_sign |-> lagna,
                       require_same_sign |-> flag]
            /\ ret' = build_navamsa_house_planets_marked(Chart(sun, p, lon), lagna, flag)
    /\ CallFrame

\* house_map = build_rasi_house_planets(sidelons, lagna_sign) of kundali_markers_lib.py
CallLibRasi ==
    /\ fn = "none"
    /\ \E sun \in SunSet, p \in DOMAIN RestLon, lagna \in LagnaSet :
        \E lon \in FocusLons(sun) :
            /\ fn' = "lib_build_rasi_house_planets"
            /\ arg' = [sidelons |-> Chart(sun, p, lon), lagna_sign |-> lagna]
            /\ ret' = lib_build_rasi_house_planets(Chart(sun, p, lon), lagna, None)
    /\ CallFrame

\* house_map = build_navamsa_house_planets(sidelons, nav_lagna_sign) of
\* kundali_markers_lib.py
CallLibNav ==
    /\ fn = "none"
    /\ \E sun \in SunSet, p \in DOMAIN RestLon, lagna \in LagnaSet :
        \E lon \in FocusLons(sun) :
            /\ fn' = "lib_build_navamsa_house_planets"
            /\ arg' = [sidelons |-> Chart(sun, p, lon), lagna_sign |-> lagna]
            /\ ret' = lib_build_navamsa_house_planets(Chart(sun, p, lon), lagna)
    /\ CallFrame

StatusNext == CallRasiMarked \/ CallNavMarked \/ CallLibRasi \/ CallLibNav

StatusInit == CallIdle /\ DashaOff /\ HouseOff /\ SidOff

SpecStatus == StatusInit /\ [][StatusNext]_vars

\* the entries of a house map
Entries(house_map) ==
    UNION {{house_map[h][i] : i \in 1 .. Len(house_map[h])} : h \in 1 .. 12}

\* the orbs of combustion, in degrees
OrbDegrees == [Mo |-> 12, Ma |-> 17, Me |-> 12, Ju |-> 11, Ve |-> 10, Sa |-> 15]

\* min(|a - b| mod 360, 360 - |a - b| mod 360)
CircSep(a, b) ==
    LET d == abs(a - b) % Full
    IN  IF d <= Full - d THEN d ELSE Full - d

\* the Rasi sign 1..12 of a longitude in [0, 360)
SignOf(lon) == (lon \div (30 * Deg)) + 1

\* planet code is within its orb of the Sun in the chart
WithinOrb(code, sidelons) ==
    /\ code \in DOMAIN OrbDegrees
    /\ CircSep(sidelons[code], sidelons["Su"]) <= OrbDegrees[code] * Deg

\* C12: in the Rasi chart a planet is combust iff it is one of Mo, Ma, Me, Ju,
\* Ve, Sa and its circular separation from the Sun is at most its orb, across
\* 0/360 too; Su, Ra and Ke never are; with the same-sign setting off the signs
\* play no part, with it on the planet must also share the Sun's Rasi sign.
\* kundali_markers_lib.py has no such setting and applies the orb alone.
Thm_C12 ==
    /\ fn = "build_rasi_house_planets_marked" =>
            \A e \in Entries(ret) :
                e.flags.combust
                    <=> /\ WithinOrb(e.code, arg.sidelons)
                        /\ arg.require_same_sign =>
                               SignOf(arg.sidelons[e.code]) = SignOf(arg.sidelons["Su"])
    /\ fn = "lib_build_rasi_house_planets" =>
            \A e \in Entries(ret) :
                e.flags.comb <=> WithinOrb(e.code, arg.sidelons)

\* the setting off, a planet made combust by a Sun beyond 0/360 from it and in
\* another sign
Wit_C12 ==
    /\ fn = "build_rasi_house_planets_marked"
    /\ arg.require_same_sign = REQUIRE_SAME_SIGN_FOR_COMBUST
    /\ \E e \in Entries(ret) :
        /\ e.flags.combust
        /\ arg.sidelons["Su"] > 330 * Deg
        /\ arg.sidelons[e.code] < 30 * Deg

\* C13: in the Navamsa chart a planet is flagged combust iff it is none of Su,
\* Ra, Ke and its Navamsa sign is the Sun's Navamsa sign; neither the orb nor
\* the combust flag of the Rasi chart, whatever the same-sign setting, plays a
\* part.
Thm_C13 ==
    /\ fn = "build_navamsa_house_planets_marked" =>
            \A e \in Entries(ret) :
                e.flags.combust
                    <=> /\ e.code \notin {"Su", "Ra", "Ke"}
                        /\ navamsa_sign_from_lon_sid(arg.sidelons[e.code])
                              = navamsa_sign_from_lon_sid(arg.sidelons["Su"])
    /\ fn = "lib_build_navamsa_house_planets" =>
            \A e \in Entries(ret) :
                e.flags.comb
                    <=> /\ e.code \notin {"Su", "Ra", "Ke"}
                        /\ lib_navamsa_sign_from_lon_sid(arg.sidelons[e.code])
                              = lib_navamsa_sign_from_lon_sid(arg.sidelons["Su"])

\* a planet flagged combust in the Navamsa chart though outside its orb, and
\* another, or the same, within its orb and not flagged
Wit_C13 ==
    /\ fn = "build_navamsa_house_planets_marked"
    /\ \E e \in Entries(ret) :
        e.flags.combust /\ ~WithinOrb(e.code, arg.sidelons)
    /\ \E e \in Entries(ret) :
        ~e.flags.combust /\ WithinOrb(e.code, arg.sidelons)

----------------------------------------------------------------------------
(* navamsa_sign_from_lon_sid, called on its own *)

\* offsets within a sign: its ends, and the pada boundaries with the unit
\* either side of them
PadaOffsets ==
    {0, 1, 30 * Deg - 1}
        \cup {k * ((30 * Deg) \div 9) + d : k \in 1 .. 8, d \in {0 - 1, 0, 1}}

\* the longitudes tried, in [0, 360)
NavamsaLons == {s * 30 * Deg + o : s \in 0 .. 11, o \in PadaOffsets}

\* n = navamsa_sign_from_lon_sid(lon) of app.py
CallNavamsa ==
    /\ fn = "none"
    /\ \E lon \in NavamsaLons :
        /\ fn' = "navamsa_sign_from_lon_sid"
        /\ arg' = lon
        /\ ret' = navamsa_sign_from_lon_sid(lon)
    /\ CallFrame

\* n = navamsa_sign_from_lon_sid(lon) of kundali_markers_lib.py
CallLibNavamsa ==
    /\ fn = "none"
    /\ \E lon \in NavamsaLons :
        /\ fn' = "lib_navamsa_sign_from_lon_sid"
        /\ arg' = lon
        /\ ret' = lib_navamsa_sign_from_lon_sid(lon)
    /\ CallFrame

NavamsaNext == CallNavamsa \/ CallLibNavamsa

NavamsaInit == CallIdle /\ DashaOff /\ HouseOff /\ SidOff

SpecNavamsa == NavamsaInit /\ [][NavamsaNext]_vars

\* the n-th sign counted from sign, sign itself the first
NthSignFrom(sign, n) == ((sign - 1 + n - 1) % 12) + 1

\* the Navamsa sign of the rule: the pada of the longitude counted on from the
\* start of the cycle, which is the sign itself for a movable sign, the 9th
\* from it for a fixed sign and the 5th from it for a dual sign
NavamsaRule(L) ==
    LET sign  == (L \div (30 * Deg)) + 1
        pada  == (L % (30 * Deg)) \div ((30 * Deg) \div 9)
        start == IF sign \in {1, 4, 7, 10} THEN sign
                 ELSE IF sign \in {2, 5, 8, 11} THEN NthSignFrom(sign, 9)
                 ELSE NthSignFrom(sign, 5)
    IN  ((start - 1 + pada) % 12) + 1

\* C14: navamsa_sign_from_lon_sid(L), with sign = floor(L/30) + 1 and pada =
\* floor((L mod 30) / (30/9)) in 0..8, returns ((start - 1 + pada) mod 12) + 1,
\* in 1..12, where start is the Rasi sign itself for the movable signs, the 9th
\* sign counted from the Rasi sign for the fixed signs and the 5th for the dual
\* signs, counted cyclically over the 12 signs.
Claim_C14 ==
    fn \in {"navamsa_sign_from_lon_sid", "lib_navamsa_sign_from_lon_sid"} =>
        /\ ret \in 1 .. 12
        /\ ret = NavamsaRule(arg)

\* the same, of the longitudes that are not 10 or 20 degrees into their sign
NavamsaOffTens ==
    (/\ fn \in {"navamsa_sign_from_lon_sid", "lib_navamsa_sign_from_lon_sid"}
     /\ (arg % (30 * Deg)) \notin {10 * Deg, 20 * Deg})
        => ret = NavamsaRule(arg)

\* the seven classical planets
Classical == {"Su", "Mo", "Ma", "Me", "Ju", "Ve", "Sa"}

\* the sign 6 signs after a sign
SixthAfter(sign) == ((sign - 1 + 6) % 12) + 1

\* the exalted and debilitated flags of an entry, whichever builder made it
IsExalted(e) == IF "exalted" \in DOMAIN e.flags THEN e.flags.exalted ELSE e.flags.exalt

IsDebilitated(e) ==
    IF "debilitated" \in DOMAIN e.flags THEN e.flags.debilitated ELSE e.flags.debil

\* the chart builders' names
Builders ==
    {"build_rasi_house_planets_marked", "build_navamsa_house_planets_marked",
     "lib_build_rasi_house_planets", "lib_build_navamsa_house_planets"}

\* C15: for each of the seven classical planets the debilitation sign is the
\* exaltation sign plus 6 signs (mod 12), in the tables of app.py and of
\* kundali_markers_lib.py; so no planet of a chart is flagged exalted and
\* debilitated at once; and Ra and Ke are flagged neither, in the Rasi and in
\* the Navamsa chart, whatever their longitude.
Thm_C15 ==
    /\ \A p \in Classical :
        /\ DEBIL_SIGN[p] = SixthAfter(EXALT_SIGN[p])
        /\ lib_DEBIL_SIGN[p] = SixthAfter(lib_EXALT_SIGN[p])
    /\ fn \in Builders =>
        \A e \in Entries(ret) :
            /\ ~(IsExalted(e) /\ IsDebilitated(e))
            /\ e.code \in {"Ra", "Ke"} => ~IsExalted(e) /\ ~IsDebilitated(e)

\* a Rasi chart with a planet flagged exalted, one flagged debilitated, and Ra
\* in the sign its EXALT_SIGN entry names
Wit_C15 ==
    /\ fn = "build_rasi_house_planets_marked"
    /\ \E e \in Entries(ret) : IsExalted(e)
    /\ \E e \in Entries(ret) : IsDebilitated(e)
    /\ SignOf(arg.sidelons["Ra"]) = EXALT_SIGN["Ra"]

----------------------------------------------------------------------------
(* Shift labels: a planet whose Chalit house is not its Rasi house is shown  *)
(* with an arrow and the whole degrees to the boundary it crossed.          *)

\* int(round(d)) for d >= 0: the nearest whole number of degrees, a tie to the
\* even one
round_deg(d) ==
    LET q == d \div Deg
        r == d % Deg
    IN  IF 2 * r < Deg THEN q
        ELSE IF 2 * r > Deg THEN q + 1
        ELSE IF q % 2 = 0 THEN q ELSE q + 1

\* chalit_kundali_renderer.py _delta_deg
_delta_deg(a, b) ==
    LET d == abs((_norm(a) - _norm(b)) % Full)
    IN  IF d > 180 * Deg THEN Full - d ELSE d

\* chalit_kundali_renderer.py shift_degree_to_boundary
shift_degree_to_boundary(lon_in, B0, target_house, direction) ==
    LET a   == B0[(target_house - 1) % 12]
        lon == _norm(lon_in)
        d   == IF direction = "forward" THEN (lon - a) % Full ELSE (a - lon) % Full
    IN  round_deg(IF d > 180 * Deg THEN Full - d ELSE d)

\* the first pass of house_planets_from_chalit, for planet P at lon
PlanetInfo(P, lon, lagna, B0) ==
    LET rasi_h   == rasi_house_of_lon(lon, lagna)
        chalit_h == house_index_for_lon_chalit(lon, B0)
        diff     == (chalit_h - rasi_h) % 12
        direction ==
            IF diff = 1 THEN "forward"
            ELSE IF diff = 11 THEN "backward"
            ELSE IF diff <= 6 THEN "forward" ELSE "backward"
        degs     == shift_degree_to_boundary(lon, B0, chalit_h, direction)
    IN  IF chalit_h = rasi_h
        THEN [planet |-> P, lon |-> lon, house |-> chalit_h,
              label |-> <<P>>, shift |-> "None"]
        ELSE [planet |-> P, lon |-> lon, house |-> chalit_h,
              label |-> <<P, direction, degs>>, shift |-> direction]

\* planet_info: the first pass over sidelons.items()
planet_info(sidelons, lagna, B0) ==
    [i \in 1 .. 9 |-> PlanetInfo(PLANETS[i], sidelons[PLANETS[i]], lagna, B0)]

\* items = [x for x in planet_info if x["house"] == h]
RECURSIVE ItemsOfHouse(_, _, _)
ItemsOfHouse(infos, h, i) ==
    IF i > Len(infos) THEN <<>>
    ELSE (IF infos[i].house = h THEN <<infos[i]>> ELSE <<>>)
            \o ItemsOfHouse(infos, h, i + 1)

\* items.sort(key=lambda k: k["lon"]): it after every item whose lon is not
\* greater (the sort is stable)
RECURSIVE InsertByLon(_, _)
InsertByLon(sorted, it) ==
    IF sorted = <<>> THEN <<it>>
    ELSE IF sorted[Len(sorted)].lon <= it.lon THEN Append(sorted, it)
    ELSE Append(InsertByLon(SubSeq(sorted, 1, Len(sorted) - 1), it), sorted[Len(sorted)])

RECURSIVE SortByLon(_)
SortByLon(items) ==
    IF items = <<>> THEN <<>>
    ELSE InsertByLon(SortByLon(SubSeq(items, 1, Len(items) - 1)), items[Len(items)])

\* the position after the first entry whose text starts with the planet's code,
\* 0 when there is none
RECURSIVE InsIdx(_, _, _)
InsIdx(entries, P, pos) ==
    IF pos > Len(entries) THEN 0
    ELSE IF entries[pos].txt[1] = P THEN pos
    ELSE InsIdx(entries, P, pos + 1)

\* list.insert(idx, e), idx counted from 0
ListInsert(entries, idx, e) ==
    SubSeq(entries, 1, idx) \o <<e>> \o SubSeq(entries, idx + 1, Len(entries))

\* the first j > i, not used, within 6 degrees of item i; 0 when there is none
RECURSIVE PairOf(_, _, _, _)
PairOf(items, used, i, j) ==
    IF j > Len(items) THEN 0
    ELSE IF j \notin used /\ _delta_deg(items[i].lon, items[j].lon) <= 6 * Deg THEN j
    ELSE PairOf(items, used, i, j + 1)

\* the second pass of house_planets_from_chalit over one house, from item i on
RECURSIVE PairLoop(_, _, _, _)
PairLoop(items, entries, used, i) ==
    IF i > Len(items) THEN entries
    ELSE IF i \in used THEN PairLoop(items, entries, used, i + 1)
    ELSE LET j == PairOf(items, used, i, i + 1)
         IN  IF j = 0 THEN PairLoop(items, entries, used, i + 1)
             ELSE LET sep == _delta_deg(items[i].lon, items[j].lon)
                      e   == [txt |-> <<"pair", round_deg(sep)>>, flags |-> <<>>]
                  IN  PairLoop(items,
                               ListInsert(entries, InsIdx(entries, items[i].planet, 1), e),
                               used \cup {i, j}, i + 1)

\* the entries of the items of one house, before the second pass
RECURSIVE EntriesOf(_, _)
EntriesOf(items, i) ==
    IF i > Len(items) THEN <<>>
    ELSE <<[txt |-> items[i].label, flags |-> <<>>]>> \o EntriesOf(items, i + 1)

\* chalit_kundali_renderer.py house_planets_from_chalit
house_planets_from_chalit(sidelons, lagna, B0) ==
    LET infos == planet_info(sidelons, lagna, B0)
    IN  [h \in 1 .. 12 |->
            LET items == ItemsOfHouse(infos, h, 1)
            IN  PairLoop(SortByLon(items), EntriesOf(items, 1), {}, 1)]

\* a ratio num / den of two arcs, den > 0
Ratio(num, den) == [num |-> num, den |-> den]

\* _arc_fraction dividing by the arc itself
total_unfloored(start, end) == Float(_fwd_arc(start, end))

\* chalit_kundali_vml.py line 52, total = _fwd_arc(start, end) or 1e-9: an arc
\* of 0.0 is replaced by 1e-9 degree, which is less than the unit
total_or_floor(start, end) ==
    LET arc == _fwd_arc(start, end)
    IN  IF arc = 0 THEN Tiny(1) ELSE Float(arc)

\* chalit_kundali_vml.py _arc_fraction: part and total are never negative, and
\* part / 1e-9 is 0 or far beyond 1
_arc_fraction(start, end, pt) ==
    LET total == total_or_floor(start, end)
        part  == _fwd_arc(start, pt)
    IN  IF total = Float(0) THEN [raised |-> "ZeroDivisionError"]
        ELSE IF total.u = 0 THEN (IF part = 0 THEN Ratio(0, 1) ELSE Ratio(1, 1))
        ELSE IF part > total.u THEN Ratio(1, 1)
        ELSE Ratio(part, total.u)

\* chalit_kundali_vml.py _deg_only
_deg_only(x) == round_deg(x)

\* the placement of one planet in render_kundali_chalit.  Both branches of a
\* shift to a neighbouring house call _ensure_point_inside, a name the module
\* neither defines nor imports: the call raises NameError, after the side of
\* the Rasi house and the degrees of the arrow have been worked out
Placement(code, sidelons, lagna, B) ==
    LET lon   == _n360(sidelons[code])
        h_r   == (((_n360(lon) \div (30 * Deg)) + 1 - lagna) % 12) + 1
        h_c   == _house_chalit(B, lon)
        start == B[h_c]
        end   == IF h_c = 12 THEN B[1] ELSE B[h_c + 1]
        t     == _arc_fraction(start, end, lon)
    IN  IF h_c # h_r /\ h_c = (h_r % 12) + 1
        THEN [raised |-> "NameError", code |-> code, h_r |-> h_r, h_c |-> h_c,
              forward |-> TRUE,
              degs |-> _deg_only(_fwd_arc(B[(h_r % 12) + 1], lon))]
        ELSE IF h_c # h_r /\ h_c = ((h_r - 2) % 12) + 1
        THEN [raised |-> "NameError", code |-> code, h_r |-> h_r, h_c |-> h_c,
              forward |-> FALSE,
              degs |-> _deg_only(_fwd_arc(lon, B[h_r]))]
        ELSE [raised |-> "None", code |-> code, h_r |-> h_r, h_c |-> h_c,
              lon |-> lon, t |-> t, shift |-> "None"]

\* render_kundali_chalit from planet i of the placements loop on.  With no
\* shift to a neighbouring house the loop ends, and the lane layout that
\* follows calls _ensure_rect_inside for the first planet it places, a name
\* the module neither defines nor imports either.  The result is the exception
\* raised, with the placements built before it and the planet it was raised at
RECURSIVE PlacementsLoop(_, _, _, _, _)
PlacementsLoop(sidelons, lagna, B, acc, i) ==
    IF i > 9 THEN [raised |-> "NameError", placements |-> acc, at |-> None]
    ELSE LET p == Placement(PLANETS[i], sidelons, lagna, B)
         IN  IF p.raised # "None"
             THEN [raised |-> p.raised, placements |-> acc, at |-> p]
             ELSE PlacementsLoop(sidelons, lagna, B, Append(acc, p), i + 1)

\* chalit_kundali_vml.py render_kundali_chalit
render_kundali_chalit(sidelons, lagna, B) == PlacementsLoop(sidelons, lagna, B, <<>>, 1)

\* the arc from the ascendant to the IC, for the shift labels: square, and two
\* of high latitudes
ShiftQuadSet == {90 * Deg, 72 * Deg, 36 * Deg}

\* the longitudes the moved planet takes: six places in each sign
ShiftLons ==
    {k * 30 * Deg + d : k \in 0 .. 11,
                        d \in {0, 2 * Deg, 7 * Deg + Deg \div 2, 15 * Deg,
                               22 * Deg + Deg \div 2, 29 * Deg}}

\* the Sun's distance ahead of the moved planet: close by, and far
ShiftGaps == {3 * Deg, 100 * Deg}

\* ascendant_sign: the sign of the sidereal ascendant
ascendant_sign(asc_trop, a) == (((asc_trop - a) % Full) \div (30 * Deg)) + 1

ShiftInit ==
    /\ cusps_trop \in {CuspTuple(asc, q, {}) : asc \in AscSet, q \in ShiftQuadSet}
    /\ ay = 24 * Deg
    /\ lagna_sign = ascendant_sign(cusps_trop[0], ay)
    /\ swept = 0
    /\ HouseIdle
    /\ DashaOff
    /\ CallIdle
    /\ SidOff

\* house_planets = house_planets_from_chalit(sidelons, lagna_sign, begins_sid),
\* begins_sid the list of 12 for H1..H12
CallHousePlanetsFromChalit ==
    /\ hop = "cusps"
    /\ fn = "none"
    /\ \E lon \in ShiftLons, gap \in ShiftGaps :
        LET sidelons == Chart((lon + gap) % Full, "Ma", lon)
            B0       == [i \in 0 .. 11 |-> begins[i + 1]]
        IN  /\ fn' = "house_planets_from_chalit"
            /\ arg' = [sidelons |-> sidelons, lagna_sign |-> lagna_sign, begins_sid |-> B0]
            /\ ret' = house_planets_from_chalit(sidelons, lagna_sign, B0)
    /\ UNCHANGED <<dvars, hvars, svars>>

\* render_kundali_chalit(size_pt, lagna_sign, sidelons, begins_sid, mids_sid)
CallRenderKundaliChalit ==
    /\ hop = "cusps"
    /\ fn = "none"
    /\ \E lon \in ShiftLons, gap \in ShiftGaps :
        LET sidelons == Chart((lon + gap) % Full, "Ma", lon)
        IN  /\ fn' = "render_kundali_chalit"
            /\ arg' = [sidelons |-> sidelons, lagna_sign |-> lagna_sign,
                       begins_sid |-> begins]
            /\ ret' = render_kundali_chalit(sidelons, lagna_sign, begins)
    /\ UNCHANGED <<dvars, hvars, svars>>

ShiftNext ==
    \/ CallComputeChalit
    \/ CallSwiss
    \/ CallHousePlanetsFromChalit
    \/ CallRenderKundaliChalit

SpecShift == ShiftInit /\ [][ShiftNext]_vars

\* the Rasi house of a longitude in [0, 360), the lagna in sign lagna
RasiHouseOf(L, lagna) == ((SignOf(L) - lagna) % 12) + 1

\* the Chalit house of a longitude: the house whose half-open arc holds it
ChalitHouseOf(B, L) == CHOOSE n \in 1 .. 12 : InHouse(B, L, n)

\* what the result of the call shows for planet P: the direction "forward",
\* "backward" or "None", and the whole degrees, -1 when there are none.
\* house_planets_from_chalit returns them in the label; render_kundali_chalit
\* returns nothing when it raises
ShownFor(P) ==
    IF fn = "house_planets_from_chalit"
    THEN LET e == CHOOSE e \in Entries(ret) : e.txt[1] = P
         IN  IF Len(e.txt) = 1 THEN [dir |-> "None", degs |-> 0 - 1]
             ELSE [dir |-> e.txt[2], degs |-> e.txt[3]]
    ELSE [dir |-> "None", degs |-> 0 - 1]

\* the begins of the call as a 1-based array, whichever function was called
BeginsOfCall ==
    IF fn = "house_planets_from_chalit"
    THEN [h \in 1 .. 12 |-> arg.begins_sid[h - 1]]
    ELSE [h \in 1 .. 12 |-> arg.begins_sid[h]]

\* the functions that draw shift labels
ShiftFuns == {"house_planets_from_chalit", "render_kundali_chalit"}

\* C16: a planet whose Chalit house differs from its Rasi house is labelled a
\* forward shift iff its Chalit house is (Rasi house mod 12) + 1 and a backward
\* shift iff it is ((Rasi house - 2) mod 12) + 1, in house_planets_from_chalit
\* and in render_kundali_chalit alike; a planet whose two houses are equal gets
\* no shift label.
Claim_C16 ==
    (fn \in ShiftFuns /\ ForwardOrdered(BeginsOfCall)) =>
        \A i \in 1 .. 9 :
            LET P  == PLANETS[i]
                hr == RasiHouseOf(arg.sidelons[P], arg.lagna_sign)
                hc == ChalitHouseOf(BeginsOfCall, arg.sidelons[P])
            IN  /\ ShownFor(P).dir = "forward" <=> hc = (hr % 12) + 1
                /\ ShownFor(P).dir = "backward" <=> hc = ((hr - 2) % 12) + 1
                /\ hc = hr => ShownFor(P).dir = "None"

\* house_planets_from_chalit labels a shift to a neighbouring house as C16 says,
\* and labels no planet whose two houses are equal
ShiftLabelNeighbour ==
    (fn = "house_planets_from_chalit" /\ ForwardOrdered(BeginsOfCall)) =>
        \A i \in 1 .. 9 :
            LET P  == PLANETS[i]
                hr == RasiHouseOf(arg.sidelons[P], arg.lagna_sign)
                hc == ChalitHouseOf(BeginsOfCall, arg.sidelons[P])
            IN  /\ hc = (hr % 12) + 1 => ShownFor(P).dir = "forward"
                /\ hc = ((hr - 2) % 12) + 1 => ShownFor(P).dir = "backward"
                /\ hc = hr => ShownFor(P).dir = "None"

\* render_kundali_chalit has told forward from backward as C16 says when it
\* raises at a shifted planet
ShiftSideVml ==
    (fn = "render_kundali_chalit" /\ ForwardOrdered(BeginsOfCall) /\ ret.at # None) =>
        LET hr == RasiHouseOf(arg.sidelons[ret.at.code], arg.lagna_sign)
            hc == ChalitHouseOf(BeginsOfCall, arg.sidelons[ret.at.code])
        IN  /\ ret.at.forward <=> hc = (hr % 12) + 1
            /\ ~ret.at.forward <=> hc = ((hr - 2) % 12) + 1

\* n degrees is the arc rounded to the nearest whole degree
NearestDegree(n, arc) == 2 * abs(n * Deg - arc) <= Deg

\* the arc between planet P of the call and the boundary it crossed: forward
\* from the begin after its Rasi house, or forward to the begin of its Rasi
\* house; -1 when its Chalit house is not next to its Rasi house
CrossedArc(P) ==
    LET L  == arg.sidelons[P]
        hr == RasiHouseOf(L, arg.lagna_sign)
        hc == ChalitHouseOf(BeginsOfCall, L)
    IN  IF hc = NextHouse(hr) THEN _fwd_arc(BeginsOfCall[NextHouse(hr)], L)
        ELSE IF hc = PrevHouse(hr) THEN _fwd_arc(L, BeginsOfCall[hr])
        ELSE 0 - 1

\* C17: the magnitude shown for a shifted planet is the arc between the planet
\* and the house boundary it crossed, rounded to the nearest whole degree: for a
\* forward shift the forward arc from the begin of the next house (Rasi house
\* + 1) to the planet, for a backward shift the forward arc from the planet to
\* the begin of its Rasi house; house_planets_from_chalit (by
\* shift_degree_to_boundary) and render_kundali_chalit show the same value for
\* the same planet and the same begins.
Claim_C17 ==
    (fn \in ShiftFuns /\ ForwardOrdered(BeginsOfCall)) =>
        \A i \in 1 .. 9 :
            CrossedArc(PLANETS[i]) >= 0 =>
                NearestDegree(ShownFor(PLANETS[i]).degs, CrossedArc(PLANETS[i]))

\* house_planets_from_chalit shows the arc of C17 for a forward shift
ShiftMagnitudeForward ==
    (fn = "house_planets_from_chalit" /\ ForwardOrdered(BeginsOfCall)) =>
        \A i \in 1 .. 9 :
            ShownFor(PLANETS[i]).dir = "forward" /\ CrossedArc(PLANETS[i]) >= 0 =>
                NearestDegree(ShownFor(PLANETS[i]).degs, CrossedArc(PLANETS[i]))

\* render_kundali_chalit has worked out the arc of C17 when it raises at a
\* shifted planet
ShiftMagnitudeVml ==
    (fn = "render_kundali_chalit" /\ ForwardOrdered(BeginsOfCall) /\ ret.at # None) =>
        NearestDegree(ret.at.degs, CrossedArc(ret.at.code))

----------------------------------------------------------------------------
(* Chart computations side by side.  The Swiss Ephemeris keeps one sidereal   *)
(* mode for the whole process: swe.set_sid_mode writes it, and every call     *)
(* under FLG_SIDEREAL and every swe.get_ayanamsa_ut reads it.  Two requests   *)
(* each run one computation; a step is one call into the ephemeris together   *)
(* with the Python around it, and the steps of the two interleave freely,     *)
(* which includes running one computation after the other.                    *)

Requests == {1, 2}

\* app.py AYANAMSHA_VAL = swe.SIDM_LAHIRI
AYANAMSHA_VAL == 1

\* the sidereal modes in play: 0 is SIDM_FAGAN_BRADLEY, the mode of the
\* ephemeris before any set_sid_mode, 1 SIDM_LAHIRI, 3 SIDM_RAMAN
SidModes == {0, AYANAMSHA_VAL, 3}

\* the ayanamsa of the instant under each mode
Ayanamsa(m) ==
    CASE m = 0 -> 24 * Deg + 44 * 60 * ArcSec
      [] m = AYANAMSHA_VAL -> 23 * Deg + 51 * 60 * ArcSec
      [] OTHER -> 22 * Deg + 24 * 60 * ArcSec

\* the ay_id arguments: the default string, and a number
AyIds == {[str |-> "lahiri"], [int |-> 3]}

\* astro_chalit_swiss.py _resolve_ayanamsa_id, for the strings it accepts
_resolve_ayanamsa_id(ay_id) ==
    IF "str" \in DOMAIN ay_id THEN 1
    ELSE IF "int" \in DOMAIN ay_id THEN ay_id.int
    ELSE 1

\* the bodies of sidereal_positions in the order of its calc_ut calls
Bodies == SubSeq(PLANETS, 1, 8)

\* the tropical longitude swe.calc_ut has for each body at the instant
TropLon(i) == (17 * Deg + (i - 1) * 41 * Deg) % Full

\* swe.calc_ut(jd, p, flags) under FLG_SIDEREAL, then % 360.0
calc_ut_sidereal(i, mode) == (TropLon(i) - Ayanamsa(mode)) % Full

\* swe.houses_ex(jd_ut, lat, lon, house_sys, FLG_SIDEREAL): the cusps, and the
\* ascendant ascmc[0]
houses_ex_sidereal(ct, mode) == [i \in 0 .. 11 |-> (ct[i] - Ayanamsa(mode)) % Full]

\* the tropical ascendants of the requests
SidAscSet == {24 * Deg, 200 * Deg}

\* the computations a request runs
SidJobs ==
    {[kind |-> "get_chalit_begins_mids_swiss", ay_id |-> a,
      cusps_trop |-> CuspTuple(asc, 90 * Deg, {})] : a \in AyIds, asc \in SidAscSet}
    \cup
    {[kind |-> k, ay_id |-> None, cusps_trop |-> CuspTuple(asc, 90 * Deg, {})] :
        k \in {"sidereal_positions", "compute_chalit_cusps_arrays"},
        asc \in SidAscSet}

\* the first ephemeris call of a computation
FirstCall(kind) ==
    CASE kind = "get_chalit_begins_mids_swiss" -> "set_sid_mode"
      [] kind = "sidereal_positions" -> "set_sidereal_locked"
      [] OTHER -> "get_ayanamsa_ut"

\* what a request did: position and locals
Step(t, label, locals) ==
    /\ pc' = [pc EXCEPT ![t] = label]
    /\ out' = [out EXCEPT ![t] = locals]
    /\ UNCHANGED job
    /\ SidFrame

\* astro_chalit_swiss.py line 88: swe.set_sid_mode(_resolve_ayanamsa_id(ay_id))
SwissSetSidMode(t) ==
    /\ pc[t] = "set_sid_mode"
    /\ sid_mode' = _resolve_ayanamsa_id(job[t].ay_id)
    /\ Step(t, "houses_ex", out[t])

\* astro_chalit_swiss.py lines 90-123: swe.houses_ex under FLG_SIDEREAL, and
\* the arrays made of its cusps
SwissHousesEx(t) ==
    /\ pc[t] = "houses_ex"
    /\ LET cusps == houses_ex_sidereal(job[t].cusps_trop, sid_mode)
       IN  Step(t, "done", get_chalit_begins_mids_swiss(cusps, 12, cusps[0]))
    /\ UNCHANGED sid_mode

\* app.py line 1518: set_sidereal_locked()
PositionsSetSiderealLocked(t) ==
    /\ pc[t] = "set_sidereal_locked"
    /\ sid_mode' = AYANAMSHA_VAL
    /\ Step(t, "calc_ut", <<>>)

\* app.py lines 1521-1526: one swe.calc_ut of the loop, or the one of the node
PositionsCalcUt(t) ==
    /\ pc[t] = "calc_ut"
    /\ LET xs == Append(out[t], calc_ut_sidereal(Len(out[t]) + 1, sid_mode))
       IN  Step(t, IF Len(xs) = Len(Bodies) THEN "get_ayanamsa_ut" ELSE "calc_ut", xs)
    /\ UNCHANGED sid_mode

\* app.py lines 1527-1530 and ascendant_sign (lines 1533-1537) on the
\* ayanamsa returned: jd, ay, sidelons = sidereal_positions(dt_utc);
\* lagna_sign, asc_sid = ascendant_sign(jd, lat, lon, ay)
PositionsResult(t, xs, a) ==
    [sidelons   |-> [code \in {PLANETS[i] : i \in 1 .. 9} |->
                        IF code = "Ke" THEN (xs[8] + 180 * Deg) % Full
                        ELSE xs[CHOOSE i \in 1 .. 8 : Bodies[i] = code]],
     ay         |-> a,
     lagna_sign |-> ascendant_sign(job[t].cusps_trop[0], a),
     asc_sid    |-> (job[t].cusps_trop[0] - a) % Full]

PositionsGetAyanamsa(t) ==
    /\ pc[t] = "get_ayanamsa_ut"
    /\ job[t].kind = "sidereal_positions"
    /\ Step(t, "done", PositionsResult(t, out[t], Ayanamsa(sid_mode)))
    /\ UNCHANGED sid_mode

\* app.py lines 1652-1677: compute_chalit_cusps_arrays reads the ayanamsa of
\* the mode in force and sets none
ArraysGetAyanamsa(t) ==
    /\ pc[t] = "get_ayanamsa_ut"
    /\ job[t].kind = "compute_chalit_cusps_arrays"
    /\ Step(t, "done", compute_chalit_cusps_arrays(job[t].cusps_trop, Ayanamsa(sid_mode)))
    /\ UNCHANGED sid_mode

SidNext ==
    \E t \in Requests :
        \/ SwissSetSidMode(t)
        \/ SwissHousesEx(t)
        \/ PositionsSetSiderealLocked(t)
        \/ PositionsCalcUt(t)
        \/ PositionsGetAyanamsa(t)
        \/ ArraysGetAyanamsa(t)

SidInit ==
    /\ sid_mode = 0
    /\ job \in [Requests -> SidJobs]
    /\ pc = [t \in Requests |-> FirstCall(job[t].kind)]
    /\ out = [t \in Requests |-> None]
    /\ DashaOff
    /\ HouseOff
    /\ CallIdle

SpecSid == SidInit /\ [][SidNext]_vars

\* the sidereal mode a computation asks for: its ay_id, or the Lahiri mode
\* app.py locks
OwnMode(k) ==
    IF k.kind = "get_chalit_begins_mids_swiss" THEN _resolve_ayanamsa_id(k.ay_id)
    ELSE AYANAMSHA_VAL

\* the result of request t when the ephemeris answers every call in mode m
ResultUnder(t, m) ==
    CASE job[t].kind = "get_chalit_begins_mids_swiss" ->
            LET cusps == houses_ex_sidereal(job[t].cusps_trop, m)
            IN  get_chalit_begins_mids_swiss(cusps, 12, cusps[0])
      [] job[t].kind = "sidereal_positions" ->
            PositionsResult(t, [i \in 1 .. 8 |-> calc_ut_sidereal(i, m)], Ayanamsa(m))
      [] OTHER ->
            compute_chalit_cusps_arrays(job[t].cusps_trop, Ayanamsa(m))

\* C18: a finished computation has the cusps, ascendant and longitudes of its
\* own ayanamsa mode, whatever mode the other request selected and however the
\* two were interleaved (so equal inputs give equal outputs)
Claim_C18 ==
    \A t \in Requests : pc[t] = "done" => out[t] = ResultUnder(t, OwnMode(job[t]))

\* a computation that selects its mode itself has the result of its own mode
\* when the other request asks for the same mode
SidSameMode ==
    \A t \in Requests : \A u \in Requests \ {t} :
        /\ pc[t] = "done"
        /\ job[t].kind # "compute_chalit_cusps_arrays"
        /\ \/ OwnMode(job[u]) = OwnMode(job[t])
           \/ job[u].kind = "compute_chalit_cusps_arrays"
        => out[t] = ResultUnder(t, OwnMode(job[t]))

\* compute_chalit_cusps_arrays has the result of the mode the ephemeris is in
\* when it reads the ayanamsa: the last one selected by anyone, or the
\* ephemeris's own default
SidArraysFollow ==
    \A t \in Requests :
        pc[t] = "done" /\ job[t].kind = "compute_chalit_cusps_arrays"
        => \E m \in SidModes : out[t] = ResultUnder(t, m)

----------------------------------------------------------------------------
(* Cusp arrays on their way to the chart.  A Python list is a record holding  *)
(* a sequence (element i of the list is items[i + 1]), a dict a record        *)
(* holding a function, None is None, and a number in a list or dict is        *)
(* Num(x).  A call that raises returns the exception.                         *)

Num(x) == [num |-> x]

PyList(s) == [type |-> "list", items |-> s]

PyDict(f) == [type |-> "dict", items |-> f]

Raises(e) == [raised |-> e]

Returns(v) == [raised |-> "None", value |-> v]

\* bool(x) of a list, a dict or None
Truthy(x) ==
    /\ x # None
    /\ IF x.type = "list" THEN Len(x.items) > 0 ELSE DOMAIN x.items # {}

\* astro_chalit_swiss.py get_chalit_begins_mids_swiss with its two checks:
\* swe is None when the import of swisseph failed; cusps has n elements
get_chalit_begins_mids_swiss_call(swe_imported, cusps, n, ascmc0) ==
    IF ~swe_imported THEN Raises("RuntimeError")
    ELSE IF n >= 12 THEN Returns(get_chalit_begins_mids_swiss(cusps, n, ascmc0))
    ELSE Raises("RuntimeError")

\* kundali_markers_lib.py _normalize_chalit_arrays, the inner _norm
_norm_zero_fallback(x) ==
    IF x # None /\ x.type = "dict" THEN x.items
    ELSE IF x # None /\ x.type = "list" /\ Len(x.items) >= 12
         THEN [i \in 1 .. 12 |-> x.items[i]]
    ELSE [i \in 1 .. 12 |-> Num(0)]

_normalize_chalit_arrays(begins_sid, mids_sid) ==
    <<_norm_zero_fallback(begins_sid), _norm_zero_fallback(mids_sid)>>

\* kundali_markers_lib.py _angle_between, on whole units
_angle_between(start_in, angle_in, end_in) ==
    LET start == start_in % Full
        end   == end_in % Full
        angle == angle_in % Full
    IN  IF start <= end THEN start <= angle /\ angle <= end
        ELSE angle >= start \/ angle <= end

\* Python's a / b on whole units: the exact quotient, or ZeroDivisionError
true_div(a, b) == IF b = 0 THEN Raises("ZeroDivisionError") ELSE Ratio(a, b)

\* kundali_markers_lib.py _angle_ratio; the arguments are floats, and x % 360
\* of a float just below 0 is 360.0
_angle_ratio(start_in, angle_in, end_in) ==
    LET start == float_rem(start_in, Full).u
        end   == float_rem(end_in, Full).u
        angle == float_rem(angle_in, Full).u
    IN  IF start <= end
        THEN IF end - start = 0 THEN Ratio(1, 2)
             ELSE true_div(angle - start, end - start)
        ELSE LET total_range == (Full - start) + end
             IN  IF total_range = 0 THEN Ratio(1, 2)
                 ELSE IF angle >= start THEN true_div(angle - start, total_range)
                 ELSE true_div((Full - start) + angle, total_range)

\* the subscript d[k] % 360 of calculate_precise_planet_coordinates
Subscript360(d, k) ==
    IF k \notin DOMAIN d THEN Raises("KeyError")
    ELSE IF d[k] = None THEN Raises("TypeError")
    ELSE Returns(d[k].num % Full)

\* the place of one planet in its house: on the line from the start point of
\* the house to its mid point, or from the mid point to its end point, at
\* ratio t of the way; or the centre of the house
PreciseCoord(p_info, begin_lon, mid_lon, end_lon) ==
    IF "lon" \notin DOMAIN p_info THEN [seg |-> "centre", t |-> Ratio(0, 1)]
    ELSE LET planet_lon == p_info.lon % Full
         IN  IF _angle_between(begin_lon, planet_lon, mid_lon)
             THEN [seg |-> "start-mid",
                   t   |-> _angle_ratio(Float(begin_lon), Float(planet_lon), Float(mid_lon))]
             ELSE [seg |-> "mid-end",
                   t   |-> _angle_ratio(Float(mid_lon), Float(planet_lon), Float(end_lon))]

\* kundali_markers_lib.py calculate_precise_planet_coordinates: the loop over
\* the houses, from house_num on; house_planets maps houses to lists
RECURSIVE PreciseLoop(_, _, _, _, _)
PreciseLoop(house_planets, begins_sid, mids_sid, planet_coords, house_num) ==
    IF house_num > 12 THEN Returns(planet_coords)
    ELSE IF house_num \notin DOMAIN house_planets \/ house_planets[house_num] = <<>>
    THEN PreciseLoop(house_planets, begins_sid, mids_sid, planet_coords, house_num + 1)
    ELSE LET BM        == _normalize_chalit_arrays(begins_sid, mids_sid)
             begin_lon == Subscript360(BM[1], house_num)
             mid_lon   == Subscript360(BM[2], house_num)
             end_lon   == Subscript360(BM[1], (house_num % 12) + 1)
             plist     == house_planets[house_num]
             positions == [i \in 1 .. Len(plist) |->
                              PreciseCoord(plist[i], begin_lon.value, mid_lon.value,
                                           end_lon.value)]
         IN  IF begin_lon.raised # "None" THEN begin_lon
             ELSE IF mid_lon.raised # "None" THEN mid_lon
             ELSE IF end_lon.raised # "None" THEN end_lon
             ELSE PreciseLoop(house_planets, begins_sid, mids_sid,
                              (house_num :> positions) @@ planet_coords, house_num + 1)

calculate_precise_planet_coordinates(house_planets, begins_sid, mids_sid) ==
    PreciseLoop(house_planets.items, begins_sid, mids_sid, <<>>, 1)

\* kundali_markers_lib.py kundali_single_box: the coordinates at which the
\* planets of each house are drawn (the shapes drawn there are left out)
kundali_single_box(house_planets, begins_sid, mids_sid) ==
    LET r == calculate_precise_planet_coordinates(house_planets, begins_sid, mids_sid)
        precise_coords ==
            IF Truthy(begins_sid) /\ Truthy(mids_sid) /\ Truthy(house_planets)
            THEN (IF r.raised # "None" THEN <<>> ELSE r.value)
            ELSE <<>>
        centre == [seg |-> "centre", t |-> Ratio(0, 1)]
        items(k) == IF Truthy(house_planets) /\ k \in DOMAIN house_planets.items
                    THEN house_planets.items[k] ELSE <<>>
        coord_list(k) ==
            IF k \in DOMAIN precise_coords /\ precise_coords[k] # <<>>
            THEN precise_coords[k]
            ELSE [i \in 1 .. Len(items(k)) |-> centre]
    IN  Returns([k \in 1 .. 12 |-> coord_list(k)])


\* the number of cusps swe.houses_ex hands back
CuspCounts == {0, 6, 11, 12, 13}

\* the cusps tuple of n elements: the 12 cusps, the first n of them, or a
\* leading 0.0 and then the 12
CuspsOfCount(c, n) ==
    IF n >= 13 THEN [i \in 0 .. 12 |-> IF i = 0 THEN 0 ELSE c[i - 1]]
    ELSE [i \in 0 .. n - 1 |-> c[i]]

\* the arrays of get_chalit_begins_mids_swiss (placeholder 0.0) and of
\* compute_chalit_cusps_arrays (placeholder None) as Python lists of 13
SwissList(a) == PyList([i \in 1 .. 13 |-> Num(a[i - 1])])

AppList(a) == PyList([i \in 1 .. 13 |-> IF i = 1 THEN None ELSE Num(a[i - 1])])

\* what a caller may hand over for a cusp array of 13 elements: the list
\* itself, the list of the 12 houses, a dict of the 12 houses, and the missing
\* and malformed ones: None, an empty list, a list of 5, a dict of 6
ArrayShapes(l) ==
    {l,
     PyList(SubSeq(l.items, 2, 13)),
     PyDict([i \in 1 .. 12 |-> l.items[i + 1]]),
     None,
     PyList(<<>>),
     PyList(SubSeq(l.items, 2, 6)),
     PyDict([i \in 1 .. 6 |-> l.items[i + 1]])}

\* the arrays of one instant
CuspArrays ==
    LET ct == CuspTuple(24 * Deg, 90 * Deg, {})
        c  == houses_ex_sidereal(ct, AYANAMSHA_VAL)
        s  == get_chalit_begins_mids_swiss(c, 12, c[0])
        a  == compute_chalit_cusps_arrays(ct, Ayanamsa(AYANAMSHA_VAL))
    IN  {[begins |-> SwissList(s.begins), mids |-> SwissList(s.mids)],
         [begins |-> AppList(a.begins), mids |-> AppList(a.mids)]}

\* house_planets: no planet, one planet in house 1, planets in houses 1 and 7
HousePlanetsSet ==
    LET e(code, lon) == [txt |-> code, lon |-> lon]
    IN  {PyDict(<<>>),
         PyDict(1 :> <<e("Su", 10 * Deg)>>),
         PyDict((1 :> <<e("Su", 10 * Deg)>>)
                @@ (7 :> <<e("Mo", 185 * Deg), e("Ma", 200 * Deg)>>))}

CallSwissChecked ==
    /\ fn = "none"
    /\ \E imported \in BOOLEAN, n \in CuspCounts, asc \in SidAscSet :
          LET c == houses_ex_sidereal(CuspTuple(asc, 90 * Deg, {}), AYANAMSHA_VAL)
          IN  /\ fn' = "get_chalit_begins_mids_swiss"
              /\ arg' = [swe_imported |-> imported, cusps |-> CuspsOfCount(c, n), n |-> n]
              /\ ret' = get_chalit_begins_mids_swiss_call(imported, CuspsOfCount(c, n),
                                                          n, c[0])
    /\ CallFrame

CallNormalizeChalitArrays ==
    /\ fn = "none"
    /\ \E a \in CuspArrays :
          \E b \in ArrayShapes(a.begins), m \in ArrayShapes(a.mids) :
              /\ fn' = "_normalize_chalit_arrays"
              /\ arg' = [house_planets |-> None, begins_sid |-> b, mids_sid |-> m]
              /\ ret' = Returns(_normalize_chalit_arrays(b, m))
    /\ CallFrame

CallCalculatePrecise ==
    /\ fn = "none"
    /\ \E a \in CuspArrays, hp \in HousePlanetsSet :
          \E b \in ArrayShapes(a.begins), m \in ArrayShapes(a.mids) :
              /\ fn' = "calculate_precise_planet_coordinates"
              /\ arg' = [house_planets |-> hp, begins_sid |-> b, mids_sid |-> m]
              /\ ret' = calculate_precise_planet_coordinates(hp, b, m)
    /\ CallFrame

CallKundaliSingleBox ==
    /\ fn = "none"
    /\ \E a \in CuspArrays, hp \in HousePlanetsSet :
          \E b \in ArrayShapes(a.begins), m \in ArrayShapes(a.mids) :
              /\ fn' = "kundali_single_box"
              /\ arg' = [house_planets |-> hp, begins_sid |-> b, mids_sid |-> m]
              /\ ret' = kundali_single_box(hp, b, m)
    /\ CallFrame

CuspsNext ==
    \/ CallSwissChecked
    \/ CallNormalizeChalitArrays
    \/ CallCalculatePrecise
    \/ CallKundaliSingleBox

CuspsInit == CallIdle /\ DashaOff /\ HouseOff /\ SidOff

SpecCusps == CuspsInit /\ [][CuspsNext]_vars

\* a cusp array that is missing or malformed: None, a list of fewer than 12
\* elements, a dict without one of the houses 1..12
Malformed(x) ==
    \/ x = None
    \/ x.type = "list" /\ Len(x.items) < 12
    \/ x.type = "dict" /\ ~((1 .. 12) \subseteq DOMAIN x.items)

Downstream ==
    {"_normalize_chalit_arrays", "calculate_precise_planet_coordinates",
     "kundali_single_box"}

\* C19: get_chalit_begins_mids_swiss raises when the ephemeris is not there or
\* hands back fewer than 12 cusps, and every downstream step handed a missing
\* or malformed cusp array raises too instead of returning a result
Claim_C19 ==
    /\ fn = "get_chalit_begins_mids_swiss" /\ (~arg.swe_imported \/ arg.n < 12)
       => ret.raised = "RuntimeError"
    /\ fn \in Downstream /\ (Malformed(arg.begins_sid) \/ Malformed(arg.mids_sid))
       => ret.raised # "None"

\* the part of C19 about get_chalit_begins_mids_swiss: no import or fewer than
\* 12 cusps, and only that, is a RuntimeError
SwissRaisesOnShortCusps ==
    fn = "get_chalit_begins_mids_swiss"
    => (ret.raised = "RuntimeError" <=> (~arg.swe_imported \/ arg.n < 12))

\* what the downstream steps do instead: _normalize_chalit_arrays turns None
\* and every list of fewer than 12 elements into twelve zeros, and
\* kundali_single_box always returns a chart
ZeroFallback ==
    /\ fn = "_normalize_chalit_arrays"
       => /\ ret.raised = "None"
          /\ (arg.begins_sid = None \/ arg.begins_sid.type = "list")
             /\ Malformed(arg.begins_sid)
             => ret.value[1] = [i \in 1 .. 12 |-> Num(0)]
    /\ fn = "kundali_single_box" => ret.raised = "None"

----------------------------------------------------------------------------
(* Proportional arcs of a house without width                                *)

\* app.py angle_ratio: the same statements as _angle_ratio
angle_ratio(start_in, angle_in, end_in) ==
    LET start == float_rem(start_in, Full).u
        end   == float_rem(end_in, Full).u
        angle == float_rem(angle_in, Full).u
    IN  IF start <= end
        THEN IF end - start = 0 THEN Ratio(1, 2)
             ELSE true_div(angle - start, end - start)
        ELSE LET total_range == (Full - start) + end
             IN  IF total_range = 0 THEN Ratio(1, 2)
                 ELSE IF angle >= start THEN true_div(angle - start, total_range)
                 ELSE true_div((Full - start) + angle, total_range)

\* longitudes of begins, mids and planets: on and inside the circle, at both
\* ends of it and beyond
ArcLons == {0, 10 * Deg, 10 * Deg + 1, 200 * Deg, 350 * Deg, Full - 1, Full, 370 * Deg}

\* the same as floats, and a float just below 0
ArcFloats == {Float(x) : x \in ArcLons} \cup {Tiny(0 - 1)}

\* cusp arrays with houses without width: the begins of houses 1 and 2 and
\* the mid of house 1 fall together; so do the begins of houses 7, 8 and 9
DegenerateCusps ==
    LET b == [i \in 1 .. 12 |->
                 Num(CASE i \in {1, 2} -> 10 * Deg
                       [] i \in {7, 8, 9} -> 190 * Deg
                       [] OTHER -> (i - 1) * 30 * Deg + 5 * Deg)]
        m == [i \in 1 .. 12 |->
                 Num(CASE i = 1 -> 10 * Deg
                       [] i \in {7, 8} -> 190 * Deg
                       [] OTHER -> (i - 1) * 30 * Deg + 20 * Deg)]
    IN  [begins |-> PyDict(b), mids |-> PyDict(m)]

CallArcFraction ==
    /\ fn = "none"
    /\ \E start \in ArcLons, end \in ArcLons, pt \in ArcLons :
          /\ fn' = "_arc_fraction"
          /\ arg' = [start |-> Float(start), end |-> Float(end), angle |-> Float(pt)]
          /\ ret' = _arc_fraction(start, end, pt)
    /\ CallFrame

CallLibAngleRatio ==
    /\ fn = "none"
    /\ \E start \in ArcFloats, end \in ArcFloats, angle \in ArcFloats :
          /\ fn' = "_angle_ratio"
          /\ arg' = [start |-> start, end |-> end, angle |-> angle]
          /\ ret' = _angle_ratio(start, angle, end)
    /\ CallFrame

CallAngleRatio ==
    /\ fn = "none"
    /\ \E start \in ArcFloats, end \in ArcFloats, angle \in ArcFloats :
          /\ fn' = "angle_ratio"
          /\ arg' = [start |-> start, end |-> end, angle |-> angle]
          /\ ret' = angle_ratio(start, angle, end)
    /\ CallFrame

\* calculate_precise_planet_coordinates on the cusps without width, a planet
\* in each of the houses 1, 7 and 8
CallPreciseDegenerate ==
    /\ fn = "none"
    /\ \E l1 \in ArcLons, l7 \in ArcLons :
          LET hp == PyDict((1 :> <<[txt |-> "Su", lon |-> l1]>>)
                           @@ (7 :> <<[txt |-> "Mo", lon |-> l7]>>)
                           @@ (8 :> <<[txt |-> "Ma", lon |-> l1]>>))
          IN  /\ fn' = "calculate_precise_planet_coordinates"
              /\ arg' = [house_planets |-> hp, begins_sid |-> DegenerateCusps.begins,
                         mids_sid |-> DegenerateCusps.mids]
              /\ ret' = calculate_precise_planet_coordinates(hp, DegenerateCusps.begins,
                                                             DegenerateCusps.mids)
    /\ CallFrame

RatioNext ==
    \/ CallArcFraction
    \/ CallLibAngleRatio
    \/ CallAngleRatio
    \/ CallPreciseDegenerate

RatioInit == CallIdle /\ DashaOff /\ HouseOff /\ SidOff

SpecRatio == RatioInit /\ [][RatioNext]_vars

\* a quotient that was computed: no division by zero
FiniteRatio(q) == "raised" \notin DOMAIN q /\ q.den # 0

\* a quotient in [0, 1]
UnitRatio(q) ==
    /\ FiniteRatio(q)
    /\ IF q.den > 0 THEN 0 <= q.num /\ q.num <= q.den
       ELSE q.num <= 0 /\ q.den <= q.num

\* C20: _arc_fraction returns a value in [0, 1], and _angle_ratio and
\* angle_ratio a finite value, whatever the arguments, start == end included;
\* and the coordinates computed from cusps with houses without width are all
\* computed from finite ratios
Thm_C20 ==
    /\ fn = "_arc_fraction" => UnitRatio(ret)
    /\ fn \in {"_angle_ratio", "angle_ratio"} => FiniteRatio(ret)
    /\ fn = "calculate_precise_planet_coordinates"
       => /\ ret.raised = "None"
          /\ \A h \in DOMAIN ret.value :
                \A i \in DOMAIN ret.value[h] : FiniteRatio(ret.value[h][i].t)

\* _arc_fraction was called for a house without width and a point off its begin
Wit_C20 ==
    /\ fn = "_arc_fraction"
    /\ arg.start = arg.end
    /\ arg.angle # arg.start
    /\ ret = Ratio(1, 1)

----------------------------------------------------------------------------
(* Signs of longitudes outside [0, 360)                                      *)

\* longitudes a whole turn below and above the circle, and on it; on the
\* circle they are the ends of the signs and of some padas
WideLons ==
    {k * Full + s * 30 * Deg + o :
        k \in {0 - 1, 0, 1}, s \in 0 .. 11,
        o \in {0, 1, 3 * Deg + 20 * 60 * ArcSec, 17 * Deg, 30 * Deg - 1}}

CallPlanetRasiSign ==
    /\ fn = "none"
    /\ \E lon \in WideLons :
        /\ fn' = "planet_rasi_sign"
        /\ arg' = lon
        /\ ret' = planet_rasi_sign(lon)
    /\ CallFrame

CallLibRasiSign ==
    /\ fn = "none"
    /\ \E lon \in WideLons :
        /\ fn' = "_rasi_sign"
        /\ arg' = lon
        /\ ret' = _rasi_sign(lon)
    /\ CallFrame

CallNavamsaWide ==
    /\ fn = "none"
    /\ \E lon \in WideLons :
        /\ fn' = "navamsa_sign_from_lon_sid"
        /\ arg' = lon
        /\ ret' = navamsa_sign_from_lon_sid(lon)
    /\ CallFrame

CallLibNavamsaWide ==
    /\ fn = "none"
    /\ \E lon \in WideLons :
        /\ fn' = "lib_navamsa_sign_from_lon_sid"
        /\ arg' = lon
        /\ ret' = lib_navamsa_sign_from_lon_sid(lon)
    /\ CallFrame

SignsNext ==
    \/ CallPlanetRasiSign
    \/ CallLibRasiSign
    \/ CallNavamsaWide
    \/ CallLibNavamsaWide

SignsInit == CallIdle /\ DashaOff /\ HouseOff /\ SidOff

SpecSigns == SignsInit /\ [][SignsNext]_vars

\* what the function called returns for longitude L
SignFunction(L) ==
    CASE fn = "planet_rasi_sign" -> planet_rasi_sign(L)
      [] fn = "_rasi_sign" -> _rasi_sign(L)
      [] fn = "navamsa_sign_from_lon_sid" -> navamsa_sign_from_lon_sid(L)
      [] OTHER -> lib_navamsa_sign_from_lon_sid(L)

\* C21: for every longitude, negative ones and ones of 360 degrees and more
\* included, the Rasi sign and the Navamsa sign returned are in 1..12 and are
\* the signs of the longitude brought into [0, 360)
Claim_C21 ==
    fn # "none" => ret \in 1 .. 12 /\ ret = SignFunction(arg % Full)

\* the signs are in 1..12 for the longitudes that are in [0, 360)
SignsInsideCircle ==
    fn # "none" /\ 0 <= arg /\ arg < Full => ret \in 1 .. 12

\* the Navamsa sign of kundali_markers_lib does not change with whole turns
LibNavamsaWide ==
    fn = "lib_navamsa_sign_from_lon_sid"
    => ret \in 1 .. 12 /\ ret = lib_navamsa_sign_from_lon_sid(arg % Full)

\* the Navamsa sign of app.py is always in 1..12
NavamsaWideInRange ==
    fn = "navamsa_sign_from_lon_sid" => ret \in 1 .. 12

----------------------------------------------------------------------------
(* sidereal_positions on the floats next to a sign boundary.  A longitude is  *)
(* a record: the float of `at` units when below is FALSE, and a float a       *)
(* little less than `at` units (as the last float before a multiple of 30     *)
(* degrees) when below is TRUE.                                               *)

Exactly(x) == [at |-> x, below |-> FALSE]

JustBelow(x) == [at |-> x, below |-> TRUE]

\* the power of two e with 2^e <= d < 2^(e+1) for the degrees d just below x:
\* the floats of one such range lie 2^(e-52) degrees apart
BinadeBelow(x) == CHOOSE e \in 0 .. 9 : 2^e * Deg < x /\ x <= 2^(e + 1) * Deg

\* a sum that keeps every float it is given
add_180_exact(v) == [at |-> v.at + 180 * Deg, below |-> v.below]

\* v + 180.0: the sum of a float just below a multiple of 30 degrees lies
\* between two floats when the floats around the sum lie further apart than
\* those around v, and is rounded to the nearer one, the multiple of 30 itself
add_180(v) ==
    IF v.below /\ BinadeBelow(v.at + 180 * Deg) > BinadeBelow(v.at)
    THEN Exactly(v.at + 180 * Deg)
    ELSE [at |-> v.at + 180 * Deg, below |-> v.below]

\* v % 360.0 for v >= 0: exact
mod_360(v) ==
    IF v.below /\ v.at % Full = 0 THEN JustBelow(Full)
    ELSE [at |-> v.at % Full, below |-> v.below]

\* app.py sidereal_positions: xx holds the longitudes swe.calc_ut returns for
\* the eight bodies
sidereal_positions(xx) ==
    LET out8 == [i \in 1 .. 8 |-> mod_360(xx[i])]
    IN  [code \in {PLANETS[i] : i \in 1 .. 9} |->
            IF code = "Ke" THEN mod_360(add_180(out8[8]))
            ELSE out8[CHOOSE i \in 1 .. 8 : Bodies[i] = code]]

\* planet_rasi_sign of such a float
planet_rasi_sign_float(v) ==
    IF v.below THEN ((v.at - 1) \div (30 * Deg)) + 1 ELSE planet_rasi_sign(v.at)

\* the longitudes swe.calc_ut returns, all in [0, 360): whole and half signs,
\* and the last float before each sign boundary
EphemerisLons ==
    {Exactly(k * 15 * Deg) : k \in 0 .. 23} \cup {JustBelow(k * 30 * Deg) : k \in 1 .. 12}

CallSiderealPositions ==
    /\ fn = "none"
    /\ \E ra \in EphemerisLons, su \in {Exactly(10 * Deg), JustBelow(30 * Deg), Exactly(359 * Deg)} :
          LET xx == [i \in 1 .. 8 |->
                        IF i = 8 THEN ra ELSE IF i = 1 THEN su
                        ELSE Exactly(TropLon(i))]
          IN  /\ fn' = "sidereal_positions"
              /\ arg' = xx
              /\ ret' = sidereal_positions(xx)
    /\ CallFrame

PositionsNext == CallSiderealPositions

PositionsInit == CallIdle /\ DashaOff /\ HouseOff /\ SidOff

SpecPositions == PositionsInit /\ [][PositionsNext]_vars

\* a float in [0, 360)
InCircleFloat(v) == 0 <= v.at /\ (IF v.below THEN 0 < v.at /\ v.at <= Full ELSE v.at < Full)

\* the nine planets, each in [0, 360)
NinePlanetsInCircle ==
    fn = "sidereal_positions"
    => /\ DOMAIN ret = {"Su", "Mo", "Ma", "Me", "Ju", "Ve", "Sa", "Ra", "Ke"}
       /\ \A code \in DOMAIN ret : InCircleFloat(ret[code])

\* C22: sidereal_positions returns the nine planets, each in [0, 360), Ketu
\* is Rahu + 180 degrees brought into the circle, and the Rasi signs of Rahu
\* and Ketu are six signs apart
Claim_C22 ==
    fn = "sidereal_positions"
    => /\ DOMAIN ret = {"Su", "Mo", "Ma", "Me", "Ju", "Ve", "Sa", "Ra", "Ke"}
       /\ \A code \in DOMAIN ret : InCircleFloat(ret[code])
       /\ ret["Ke"] = mod_360(add_180_exact(ret["Ra"]))
       /\ (planet_rasi_sign_float(ret["Ke"]) - planet_rasi_sign_float(ret["Ra"])) % 12 = 6

\* Ketu is opposite Rahu, six signs on, whenever the sum Rahu + 180 is a float
KetuOppositeWhenExact ==
    fn = "sidereal_positions" /\ add_180(ret["Ra"]) = add_180_exact(ret["Ra"])
    => /\ ret["Ke"] = mod_360(add_180_exact(ret["Ra"]))
       /\ (planet_rasi_sign_float(ret["Ke"]) - planet_rasi_sign_float(ret["Ra"])) % 12 = 6

----------------------------------------------------------------------------
(* Vargottama                                                                 *)

\* compute_statuses_all on a chart with one planet moved over the ends of the
\* padas of every sign
CallComputeStatusesAll ==
    /\ fn = "none"
    /\ \E p \in DOMAIN RestLon, lon \in NavamsaLons :
          /\ fn' = "compute_statuses_all"
          /\ arg' = Chart(20 * Deg, p, lon)
          /\ ret' = compute_statuses_all(Chart(20 * Deg, p, lon),
                                         REQUIRE_SAME_SIGN_FOR_COMBUST)
    /\ CallFrame

VargottamaNext == CallComputeStatusesAll

VargottamaInit == CallIdle /\ DashaOff /\ HouseOff /\ SidOff

SpecVargottama == VargottamaInit /\ [][VargottamaNext]_vars

\* pada n (1..9) of a sign: [(n - 1) * 3 deg 20 min, n * 3 deg 20 min)
InPada(L, n) ==
    LET d == L % (30 * Deg)
        w == 3 * Deg + 20 * 60 * ArcSec
    IN  (n - 1) * w <= d /\ d < n * w

\* first pada of a movable sign, fifth of a fixed sign, ninth of a dual sign
VargottamaRule(L) ==
    LET sign == (L \div (30 * Deg)) + 1
    IN  \/ sign \in {1, 4, 7, 10} /\ InPada(L, 1)
        \/ sign \in {2, 5, 8, 11} /\ InPada(L, 5)
        \/ sign \in {3, 6, 9, 12} /\ InPada(L, 9)

\* C23: the vargottama flag of a planet is true exactly when the planet is in
\* the first pada of a movable sign, the fifth pada of a fixed sign or the
\* ninth pada of a dual sign
Thm_C23 ==
    fn = "compute_statuses_all"
    => \A code \in DOMAIN ret : ret[code].vargottama <=> VargottamaRule(arg[code])

\* a planet on the first point of the fifth pada of a fixed sign is flagged
Wit_C23 ==
    /\ fn = "compute_statuses_all"
    /\ arg["Ma"] = 30 * Deg + 13 * Deg + 20 * 60 * ArcSec
    /\ ret["Ma"].vargottama
    /\ ~ret["Mo"].vargottama

----------------------------------------------------------------------------
(* Every house holds its own cusp                                             *)

\* C24: with the begins and mids of get_chalit_begins_mids_swiss, the cusp of
\* every house lies in the house: chalit_house_index_of_lon(mid[i], begins)
\* is i for each i in 1..12
Claim_C24 ==
    hop \in {"cusps", "assigned"} /\ engine = "get_chalit_begins_mids_swiss"
    => \A i \in 1 .. 12 : chalit_house_index_of_lon(mids[i], begins) = i

\* what get_chalit_begins_mids_swiss gives instead: begins[i] is the midpoint
\* after cusp i, so the cusp of house i lies in the house before it
SwissCuspInHouseBefore ==
    hop \in {"cusps", "assigned"} /\ engine = "get_chalit_begins_mids_swiss"
    => \A i \in 1 .. 12 : chalit_house_index_of_lon(mids[i], begins) = PrevHouse(i)

\* the arrays of compute_chalit_cusps_arrays do hold every cusp in its house,
\* unless a begin or a cusp was rounded to 360.0
AppCuspInOwnHouse ==
    /\ hop \in {"cusps", "assigned"}
    /\ engine = "compute_chalit_cusps_arrays"
    /\ \A i \in 1 .. 12 : begins[i] < Full /\ mids[i] < Full
    => \A i \in 1 .. 12 : chalit_house_index_of_lon(mids[i], begins) = i

----------------------------------------------------------------------------
(* The three Chalit house assignments on any list of begins                   *)

\* lists of 12 begins in [0, 360), houses 1..12: evenly and unevenly spaced in
\* forward order, houses 3 and 4 without width, forward order from another
\* start, backward order, two begins exchanged, and all begins equal
BeginsLists ==
    LET even == [i \in 1 .. 12 |-> (5 * Deg + (i - 1) * 30 * Deg) % Full]
        ct   == CuspTuple(200 * Deg + ArcSec, 72 * Deg, {})
    IN  {even,
         [i \in 1 .. 12 |-> ct[i - 1]],
         [i \in 1 .. 12 |-> IF i \in {4, 5} THEN even[3] ELSE even[i]],
         [i \in 1 .. 12 |-> even[((i + 6) % 12) + 1]],
         [i \in 1 .. 12 |-> even[13 - i]],
         [i \in 1 .. 12 |-> IF i = 2 THEN even[9] ELSE IF i = 9 THEN even[2] ELSE even[i]],
         [i \in 1 .. 12 |-> 100 * Deg],
         [i \in 1 .. 12 |-> 0]}

\* longitudes on, just before and just after the begins, and outside [0, 360)
AssignLons(B) ==
    {B[n] + d : n \in 1 .. 12, d \in {0 - 1, 0, 1}} \cup {50 * Deg, 0 - 90 * Deg, 400 * Deg}

\* the three functions called with the same begins and the same longitude,
\* each in its own index convention: begins[1..12] after a placeholder for
\* _house_chalit and chalit_house_index_of_lon, begins[0..11] for
\* house_index_for_lon_chalit
CallAssignments ==
    /\ fn = "none"
    /\ \E B \in BeginsLists :
          \E lon \in AssignLons(B) :
              /\ fn' = "house assignments"
              /\ arg' = [begins |-> B, lon |-> lon]
              /\ ret' = [_house_chalit |->
                            _house_chalit([i \in 0 .. 12 |-> IF i = 0 THEN 0 ELSE B[i]], lon),
                         chalit_house_index_of_lon |->
                            chalit_house_index_of_lon(
                                lon, [i \in 0 .. 12 |-> IF i = 0 THEN 0 ELSE B[i]]),
                         house_index_for_lon_chalit |->
                            house_index_for_lon_chalit(lon, [i \in 0 .. 11 |-> B[i + 1]])]
    /\ CallFrame

AssignNext == CallAssignments

AssignInit == CallIdle /\ DashaOff /\ HouseOff /\ SidOff

SpecAssign == AssignInit /\ [][AssignNext]_vars

\* C25: for every list of 12 begins in [0, 360) and every longitude the three
\* functions return the same house, a number in 1..12
Claim_C25 ==
    fn = "house assignments"
    => /\ ret._house_chalit \in 1 .. 12
       /\ ret.chalit_house_index_of_lon = ret._house_chalit
       /\ ret.house_index_for_lon_chalit = ret._house_chalit

\* the three agree for every list in which two begins differ
AssignAgreeUnlessAllEqual ==
    fn = "house assignments" /\ (\E i \in 1 .. 12 : arg.begins[i] # arg.begins[1])
    => /\ ret._house_chalit \in 1 .. 12
       /\ ret.chalit_house_index_of_lon = ret._house_chalit
       /\ ret.house_index_for_lon_chalit = ret._house_chalit

\* with all begins equal no arc holds the longitude: the loops of
\* _house_chalit and chalit_house_index_of_lon end in house 12, the fallback
\* of house_index_for_lon_chalit in house 1
AssignAllEqual ==
    fn = "house assignments" /\ (\A i \in 1 .. 12 : arg.begins[i] = arg.begins[1])
    => /\ ret._house_chalit = 12
       /\ ret.chalit_house_index_of_lon = 12
       /\ ret.house_index_for_lon_chalit = 1

----------------------------------------------------------------------------
(* The 1-based arrays of get_chalit_begins_mids_swiss in kundali_markers_lib  *)

\* the arrays get_chalit_begins_mids_swiss returns for sidereal cusps
SwissArrays ==
    {get_chalit_begins_mids_swiss(CuspTuple(asc, q, {}), 12, asc) :
        asc \in AscSet, q \in QuadSet}

\* longitudes in the middle and at the start of each sign
PlacedLons == {(k * 30 + o) * Deg : k \in 0 .. 11, o \in {0, 10}}

\* _normalize_chalit_arrays on the 13-element lists of the Swiss engine
CallNormalizeSwiss ==
    /\ fn = "none"
    /\ \E s \in SwissArrays :
          /\ fn' = "_normalize_chalit_arrays"
          /\ arg' = [engine |-> s, begins_sid |-> SwissList(s.begins),
                     mids_sid |-> SwissList(s.mids)]
          /\ ret' = Returns(_normalize_chalit_arrays(SwissList(s.begins),
                                                     SwissList(s.mids)))
    /\ CallFrame

\* build_rasi_house_planets with begins_sid: the 13-element list of the Swiss
\* engine, or the same begins as a list of 12 (house h at element h - 1)
CallLibRasiChalit ==
    /\ fn = "none"
    /\ \E s \in SwissArrays, p \in DOMAIN RestLon, lagna \in LagnaSet,
          based \in {0, 1} :
        \E lon \in PlacedLons :
            LET b == IF based = 1 THEN SwissList(s.begins)
                     ELSE PyList([i \in 1 .. 12 |-> Num(s.begins[i])])
            IN  /\ fn' = "lib_build_rasi_house_planets"
                /\ arg' = [sidelons |-> Chart(20 * Deg, p, lon), lagna_sign |-> lagna,
                           engine |-> s, begins_sid |-> b]
                /\ ret' = lib_build_rasi_house_planets(Chart(20 * Deg, p, lon), lagna, b)
    /\ CallFrame

PlaceholderNext == CallNormalizeSwiss \/ CallLibRasiChalit

PlaceholderInit == CallIdle /\ DashaOff /\ HouseOff /\ SidOff

SpecPlaceholder == PlaceholderInit /\ [][PlaceholderNext]_vars

\* the house build_rasi_house_planets put the planet in
PlacedHouse(house_map, code) ==
    CHOOSE h \in 1 .. 12 :
        \E i \in 1 .. Len(house_map[h]) : house_map[h][i].code = code

\* every planet is in the Chalit house chalit_house_index_of_lon gives it
PlacedAsChalit ==
    \A code \in DOMAIN arg.sidelons :
        PlacedHouse(ret, code) =
            chalit_house_index_of_lon(arg.sidelons[code], arg.engine.begins)

\* C26: on the 1-based list of get_chalit_begins_mids_swiss (element 0 is a
\* placeholder) _normalize_chalit_arrays gives B[h] = begins[h] for every house
\* h, and build_rasi_house_planets puts every planet in the Chalit house that
\* chalit_house_index_of_lon finds on the same list
Claim_C26 ==
    /\ fn = "_normalize_chalit_arrays"
       => \A h \in 1 .. 12 : ret.value[1][h] = Num(arg.engine.begins[h])
    /\ (fn = "lib_build_rasi_house_planets" /\ Len(arg.begins_sid.items) = 13)
       => PlacedAsChalit

\* what the code does with the 13-element list: house 1 gets the placeholder
\* and house h the begin of house h - 1
NormalizeTakesElementBefore ==
    fn = "_normalize_chalit_arrays"
    => \A h \in 1 .. 12 : ret.value[1][h] = Num(arg.engine.begins[h - 1])

\* the same begins as a list of 12 are placed as chalit_house_index_of_lon does
PlacedAsChalitOnListOf12 ==
    (fn = "lib_build_rasi_house_planets" /\ Len(arg.begins_sid.items) = 12)
    => PlacedAsChalit

----------------------------------------------------------------------------
(* The Navamsa sign and the D9 flags of app.py and kundali_markers_lib.py    *)

\* the two navamsa_sign_from_lon_sid called with the same longitude
CallNavamsaOfBoth ==
    /\ fn = "none"
    /\ \E lon \in NavamsaLons :
        /\ fn' = "navamsa_sign_from_lon_sid of both"
        /\ arg' = lon
        /\ ret' = [app |-> navamsa_sign_from_lon_sid(lon),
                   lib |-> lib_navamsa_sign_from_lon_sid(lon)]
    /\ CallFrame

\* build_navamsa_house_planets_marked of app.py and build_navamsa_house_planets
\* of kundali_markers_lib.py called with the same chart
CallNavamsaChartsOfBoth ==
    /\ fn = "none"
    /\ \E sun \in {20 * Deg, 190 * Deg}, p \in DOMAIN RestLon, lagna \in LagnaSet :
        \E lon \in NavamsaLons :
            /\ fn' = "navamsa charts of both"
            /\ arg' = [sidelons |-> Chart(sun, p, lon), lagna_sign |-> lagna]
            /\ ret' = [app |-> build_navamsa_house_planets_marked(
                                   Chart(sun, p, lon), lagna,
                                   REQUIRE_SAME_SIGN_FOR_COMBUST),
                       lib |-> lib_build_navamsa_house_planets(Chart(sun, p, lon), lagna)]
    /\ CallFrame

BothNext == CallNavamsaOfBoth \/ CallNavamsaChartsOfBoth

BothInit == CallIdle /\ DashaOff /\ HouseOff /\ SidOff

SpecBoth == BothInit /\ [][BothNext]_vars

\* the entry of the planet in a house map, and the house it is in
EntryOf(house_map, code) == CHOOSE e \in Entries(house_map) : e.code = code

HouseOf(house_map, code) ==
    CHOOSE h \in 1 .. 12 :
        \E i \in 1 .. Len(house_map[h]) : house_map[h][i].code = code

\* C27: for every longitude in [0, 360) the Navamsa sign of
\* kundali_markers_lib.py, ((rasi - 1) * 9 + pada) mod 12 + 1, is the Navamsa
\* sign of app.py (cycle started by the sign's group), and so the D9 charts of
\* the two modules give every planet the same house, the same combust flag
\* and the same vargottama flag
Thm_C27 ==
    /\ fn = "navamsa_sign_from_lon_sid of both"
       => ret.lib \in 1 .. 12 /\ ret.lib = ret.app
    /\ fn = "navamsa charts of both"
       => \A code \in DOMAIN arg.sidelons :
             /\ HouseOf(ret.lib, code) = HouseOf(ret.app, code)
             /\ EntryOf(ret.lib, code).flags.comb
                    <=> EntryOf(ret.app, code).flags.combust
             /\ EntryOf(ret.lib, code).flags.varg
                    <=> EntryOf(ret.app, code).flags.vargottama

\* Mars in the last ninth of Taurus (a fixed sign, cycle from the 9th sign)
\* shares Virgo with the Sun at 20 Aries: combust in the D9 chart of both modules
Wit_C27 ==
    /\ fn = "navamsa charts of both"
    /\ arg.sidelons["Su"] = 20 * Deg
    /\ arg.sidelons["Ma"] = 30 * Deg + 8 * ((30 * Deg) \div 9) + 1
    /\ EntryOf(ret.lib, "Ma").flags.comb
    /\ EntryOf(ret.app, "Ma").flags.combust
    /\ ~EntryOf(ret.lib, "Ma").flags.varg

----------------------------------------------------------------------------
(* The degree/minute/second texts within a sign                               *)

\* one arc-minute and one arc-second in the unit of the longitudes
ArcMin == 60 * ArcSec

\* round(x) of a number of arc-seconds given in units: to the nearest whole
\* second, a half going to the even one
round_sec(x) ==
    LET q == x \div ArcSec
        f == x % ArcSec
    IN  IF 2 * f < ArcSec THEN q
        ELSE IF 2 * f > ArcSec THEN q + 1
        ELSE IF q % 2 = 0 THEN q ELSE q + 1

\* the text DD.MM.SS (or with degree, minute and second marks): its numbers
DmsText(d, m, s) == [degrees |-> d, minutes |-> m, seconds |-> s]

\* astro_chalit_swiss.py _deg_to_dms_string
_deg_to_dms_string(x) ==
    LET within == _degnorm(x) % (30 * Deg)
        d0 == within \div Deg
        m0 == (within - d0 * Deg) \div ArcMin
        s0 == round_sec(within - d0 * Deg - m0 * ArcMin)
        s  == IF s0 = 60 THEN 0 ELSE s0
        m1 == IF s0 = 60 THEN m0 + 1 ELSE m0
        m  == IF m1 = 60 THEN 0 ELSE m1
        d1 == IF m1 = 60 THEN d0 + 1 ELSE d0
        d  == IF d1 = 30 THEN 0 ELSE d1
    IN  DmsText(d, m, s)

\* app.py dms_exact: degrees, minutes and the seconds left (in units)
dms_exact(deg) ==
    LET d == deg \div Deg
        m == (deg - d * Deg) \div ArcMin
    IN  <<d, m, deg - d * Deg - m * ArcMin>>

\* app.py fmt_deg_sign: the sign and the text
fmt_deg_sign(x) ==
    LET sign == (x \div (30 * Deg)) + 1
        dms  == dms_exact(x % (30 * Deg))
        s0 == round_sec(dms[3])
        s_rounded == IF s0 = 60 THEN 0 ELSE s0
        m1 == IF s0 = 60 THEN dms[2] + 1 ELSE dms[2]
        m  == IF m1 = 60 THEN 0 ELSE m1
        d1 == IF m1 = 60 THEN dms[1] + 1 ELSE dms[1]
        d  == IF d1 = 30 THEN 0 ELSE d1
    IN  <<sign, DmsText(d, m, s_rounded)>>

\* app.py _dms_signwise_str
_dms_signwise_str(x) ==
    LET dd == x % (30 * Deg)
        D0 == dd \div Deg
        M0 == (dd - D0 * Deg) \div ArcMin
        S0 == round_sec(dd - D0 * Deg - M0 * ArcMin)
        S  == IF S0 = 60 THEN 0 ELSE S0
        M1 == IF S0 = 60 THEN M0 + 1 ELSE M0
        M  == IF M1 = 60 THEN 0 ELSE M1
        D1 == IF M1 = 60 THEN D0 + 1 ELSE D0
    IN  IF D1 >= 30 THEN DmsText(29, 59, 59) ELSE DmsText(D1, M, S)

\* app.py decimal_to_dms_celestial; decimal_deg is None or a number
decimal_to_dms_celestial(decimal_deg) ==
    IF decimal_deg = None THEN "N/A"
    ELSE LET n360 == decimal_deg.num % Full
             degrees_in_sign == n360 % (30 * Deg)
             degrees0 == degrees_in_sign \div Deg
             minutes0 == (degrees_in_sign - degrees0 * Deg) \div ArcMin
             seconds0 == degrees_in_sign - degrees0 * Deg - minutes0 * ArcMin
             over     == round_sec(seconds0) = 60
             seconds  == IF over THEN 0 ELSE seconds0
             minutes1 == IF over THEN minutes0 + 1 ELSE minutes0
             minutes  == IF minutes1 = 60 THEN 0 ELSE minutes1
             degrees  == IF minutes1 = 60 THEN degrees0 + 1 ELSE degrees0
         IN  DmsText(degrees, minutes, round_sec(seconds))

\* longitudes around the ends of a second, of a minute, of a degree and of a
\* sign, in and outside [0, 360)
DmsLons ==
    {k * 30 * Deg + o + e :
        k \in {0 - 1, 0, 1, 11, 12},
        o \in {0, 12 * Deg + 34 * ArcMin + 56 * ArcSec, 7 * Deg + 5 * ArcMin,
               7 * Deg + 5 * ArcMin + 60 * ArcSec, 8 * Deg, 30 * Deg},
        e \in {0 - 5, 0 - 4, 0 - 3, 0 - 1, 0, 3, 4, 5}}

CallDegToDmsString ==
    /\ fn = "none"
    /\ \E x \in DmsLons :
        /\ fn' = "_deg_to_dms_string"
        /\ arg' = Num(x)
        /\ ret' = _deg_to_dms_string(x)
    /\ CallFrame

CallFmtDegSign ==
    /\ fn = "none"
    /\ \E x \in DmsLons :
        /\ fn' = "fmt_deg_sign"
        /\ arg' = Num(x)
        /\ ret' = fmt_deg_sign(x)[2]
    /\ CallFrame

CallDmsSignwiseStr ==
    /\ fn = "none"
    /\ \E x \in DmsLons :
        /\ fn' = "_dms_signwise_str"
        /\ arg' = Num(x)
        /\ ret' = _dms_signwise_str(x)
    /\ CallFrame

CallDecimalToDmsCelestial ==
    /\ fn = "none"
    /\ \E v \in {Num(x) : x \in DmsLons} \cup {None} :
        /\ fn' = "decimal_to_dms_celestial"
        /\ arg' = v
        /\ ret' = decimal_to_dms_celestial(v)
    /\ CallFrame

DmsNext ==
    \/ CallDegToDmsString
    \/ CallFmtDegSign
    \/ CallDmsSignwiseStr
    \/ CallDecimalToDmsCelestial

DmsInit == CallIdle /\ DashaOff /\ HouseOff /\ SidOff

SpecDms == DmsInit /\ [][DmsNext]_vars

DmsFormatters ==
    {"_deg_to_dms_string", "fmt_deg_sign", "_dms_signwise_str", "decimal_to_dms_celestial"}

DmsInRange(t) ==
    /\ t.degrees \in 0 .. 29
    /\ t.minutes \in 0 .. 59
    /\ t.seconds \in 0 .. 59

\* the place within the sign to the nearest second, 30 degrees being 0 again
CarriedDms(x) ==
    LET total == round_sec(x % (30 * Deg)) % (30 * 3600)
    IN  DmsText(total \div 3600, (total % 3600) \div 60, total % 60)

\* C28: for every longitude the text of each of the four formatters has
\* degrees in 0..29, minutes in 0..59 and seconds in 0..59, and is the place
\* within the sign to the nearest second with the carries 60 seconds -> next
\* minute, 60 minutes -> next degree, 30 degrees -> 0
Claim_C28 ==
    (fn \in DmsFormatters /\ arg # None)
    => DmsInRange(ret) /\ ret = CarriedDms(arg.num)

\* what the code keeps: three of the formatters stay in range
DmsInRangeButCelestial ==
    (fn \in DmsFormatters \ {"decimal_to_dms_celestial"}) => DmsInRange(ret)

\* and two of them carry 30 degrees to 0
DmsCarriedInTwo ==
    fn \in {"_deg_to_dms_string", "fmt_deg_sign"} => ret = CarriedDms(arg.num)

\* the others differ from the carried text only where the degree reaches 30
DmsDifferOnlyAtSignEnd ==
    (fn \in {"_dms_signwise_str", "decimal_to_dms_celestial"} /\ arg # None)
    => \/ ret = CarriedDms(arg.num)
       \/ /\ CarriedDms(arg.num) = DmsText(0, 0, 0)
          /\ ret = IF fn = "_dms_signwise_str" THEN DmsText(29, 59, 59)
                   ELSE DmsText(30, 0, 0)

----------------------------------------------------------------------------
(* The validation gate of the Generate button and the start of generation     *)

\* a Python str is the sequence of its characters
Str(s) == [str |-> s]

\* x or ''
OrEmpty(x) == IF x = None THEN <<>> ELSE x.str

\* str.lstrip(chars) and str.rstrip(chars)
RECURSIVE lstrip(_, _)
lstrip(s, chars) ==
    IF s # <<>> /\ Head(s) \in chars THEN lstrip(Tail(s), chars) ELSE s

RECURSIVE rstrip(_, _)
rstrip(s, chars) ==
    IF s # <<>> /\ s[Len(s)] \in chars
    THEN rstrip(SubSeq(s, 1, Len(s) - 1), chars) ELSE s

\* str.strip()
strip(s) == rstrip(lstrip(s, {" "}), {" "})

\* str.split(c)
RECURSIVE split(_, _)
split(s, c) ==
    IF \A i \in 1 .. Len(s) : s[i] # c THEN <<s>>
    ELSE LET i == CHOOSE k \in 1 .. Len(s) :
                      s[k] = c /\ \A j \in 1 .. k - 1 : s[j] # c
         IN  <<SubSeq(s, 1, i - 1)>> \o split(SubSeq(s, i + 1, Len(s)), c)

DigitChars == {"0", "1", "2", "3", "4", "5", "6", "7", "8", "9"}

DigitValue(c) ==
    CHOOSE v \in 0 .. 9 : <<"0", "1", "2", "3", "4", "5", "6", "7", "8", "9">>[v + 1] = c

RECURSIVE DigitsValue(_)
DigitsValue(s) ==
    IF s = <<>> THEN 0
    ELSE DigitsValue(SubSeq(s, 1, Len(s) - 1)) * 10 + DigitValue(s[Len(s)])

\* int(s): blanks around, one sign, digits
py_int(s) ==
    LET t == strip(s)
        signed == t # <<>> /\ Head(t) \in {"+", "-"}
        u == IF signed THEN Tail(t) ELSE t
        v == DigitsValue(u)
    IN  IF u # <<>> /\ \A i \in 1 .. Len(u) : u[i] \in DigitChars
        THEN Returns(IF signed /\ Head(t) = "-" THEN 0 - v ELSE v)
        ELSE Raises("ValueError")

\* an hour of UTC offset, in units of 6 seconds: a minute is 10 units and a
\* hundredth of an hour 6
Hour == 60 * 10

\* float values: a finite number of units, a NaN, or an infinity with its sign
Finite(n) == [num |-> n]

NaN == [nan |-> TRUE]

Inf(sg) == [inf |-> sg]

\* float(s) for the texts that occur: blanks around, one sign, then nan, inf,
\* or digits with at most one point and at most two digits after it
py_float(s) ==
    LET t == strip(s)
        signed == t # <<>> /\ Head(t) \in {"+", "-"}
        sg == IF signed /\ Head(t) = "-" THEN 0 - 1 ELSE 1
        u == IF signed THEN Tail(t) ELSE t
        parts == split(u, ".")
        whole == parts[1]
        frac == IF Len(parts) = 2 THEN parts[2] ELSE <<>>
    IN  IF u = <<"n", "a", "n">> THEN Returns(NaN)
        ELSE IF u = <<"i", "n", "f">> THEN Returns(Inf(sg))
        ELSE IF /\ Len(parts) <= 2
                /\ Len(whole) + Len(frac) > 0
                /\ \A i \in 1 .. Len(whole) : whole[i] \in DigitChars
                /\ \A i \in 1 .. Len(frac) : frac[i] \in DigitChars
             THEN Returns(Finite(sg * (DigitsValue(whole) * Hour
                                       + (DigitsValue(frac) * Hour) \div 10 ^ Len(frac))))
        ELSE Raises("ValueError")

\* a < b and a > b of floats, b finite
float_lt(a, b) ==
    IF "num" \in DOMAIN a THEN a.num < b
    ELSE IF "inf" \in DOMAIN a THEN a.inf < 0 ELSE FALSE

float_gt(a, b) ==
    IF "num" \in DOMAIN a THEN a.num > b
    ELSE IF "inf" \in DOMAIN a THEN a.inf > 0 ELSE FALSE

\* app.py, validation gate: the parse of _tz into _tzv, raising inside the try
gate_tzv(tz) ==
    LET tz_clean == strip(tz)
    IN  IF \E i \in 1 .. Len(tz_clean) : tz_clean[i] = ":"
        THEN LET sign  == IF tz_clean # <<>> /\ Head(tz_clean) = "+" THEN 1 ELSE 0 - 1
                 parts == split(lstrip(tz_clean, {"+", "-"}), ":")
                 ints  == [i \in 1 .. Len(parts) |-> py_int(parts[i])]
             IN  IF \E i \in 1 .. Len(parts) : ints[i].raised # "None"
                 THEN Raises("ValueError")
                 ELSE IF Len(parts) # 2 THEN Raises("ValueError")
                 ELSE Returns(Finite(sign * (ints[1].value * Hour
                                             + (ints[2].value * Hour) \div 60)))
        ELSE py_float(tz_clean)

\* app.py, validation gate: any_err and the parsed offset
validation_gate(ss) ==
    LET name  == strip(OrEmpty(ss.name_input))
        place == strip(OrEmpty(ss.place_input))
        tz    == strip(OrEmpty(ss.tz_input))
        dob   == ss.dob_input
        tob   == ss.tob_input
        tzv   == gate_tzv(tz)
    IN  IF name = <<>> \/ place = <<>> \/ tz = <<>> \/ dob = None \/ tob = None
        THEN [any_err |-> TRUE, tzv |-> None, name |-> name, place |-> place,
              tz |-> tz, dob |-> dob, tob |-> tob]
        ELSE [any_err |-> IF tzv.raised # "None" THEN TRUE
                          ELSE float_lt(tzv.value, 0 - 12 * Hour)
                                   \/ float_gt(tzv.value, 14 * Hour),
              tzv |-> tzv, name |-> name, place |-> place,
              tz |-> tz, dob |-> dob, tob |-> tob]

\* app.py, generation flow: the parse of tz_override into tz_hours
generation_tz_hours(tz_override) ==
    LET tz_clean == strip(tz_override)
    IN  IF \E i \in 1 .. Len(tz_clean) : tz_clean[i] = ":"
        THEN LET sign  == IF tz_clean # <<>> /\ Head(tz_clean) = "+" THEN 1 ELSE 0 - 1
                 rest  == lstrip(tz_clean, {"+", "-"})
                 parts == split(rest, ":")
                 ints  == [i \in 1 .. Len(parts) |-> py_int(parts[i])]
             IN  IF \E i \in 1 .. Len(parts) : ints[i].raised # "None"
                 THEN Raises("ValueError")
                 ELSE IF Len(parts) # 2 THEN Raises("ValueError")
                 ELSE Returns(Finite(sign * (ints[1].value * Hour
                                             + (ints[2].value * Hour) \div 60)))
        ELSE py_float(tz_clean)

\* app.py, generation flow up to sidereal_positions(dt_utc): the calls made in
\* order, the offset used and the UTC instant; geocode raises when
\* geocode_ok is false, and every exception ends the flow in the except branch
generation_flow(g, api_key, geocode_ok) ==
    LET dt_local == g.dob.date + g.tob.time
        parsed   == generation_tz_hours(g.tz)
        stopped(calls, e) ==
            [calls |-> calls, tz_hours |-> None, dt_utc |-> None, error |-> e]
    IN  IF api_key = "" THEN stopped(<<>>, "Geoapify key missing")
        ELSE IF ~geocode_ok THEN stopped(<<"geocode">>, "Error generating Kundali")
        ELSE IF strip(g.tz) = <<>>
             THEN [calls |-> <<"geocode", "tz_from_latlon", "sidereal_positions">>,
                   tz_hours |-> None, dt_utc |-> None, error |-> "None"]
        ELSE IF parsed.raised # "None"
             THEN stopped(<<"geocode">>, "Error generating Kundali")
        ELSE IF "num" \notin DOMAIN parsed.value
             THEN stopped(<<"geocode">>, "Error generating Kundali")
        ELSE [calls |-> <<"geocode", "sidereal_positions">>,
              tz_hours |-> parsed.value,
              dt_utc |-> Num(dt_local - parsed.value.num),
              error |-> "None"]

\* one run of the script from the gate on, Generate not clicked in this run
script_run(ss, api_key, geocode_ok) ==
    LET g == validation_gate(ss)
        idle == [can_generate |-> FALSE, tzv |-> None, calls |-> <<>>,
                 tz_hours |-> None, dt_utc |-> None, error |-> "None"]
    IN  IF ss.submitted # TRUE THEN idle
        ELSE IF g.any_err THEN [idle EXCEPT !.tzv = g.tzv]
        ELSE [can_generate |-> TRUE, tzv |-> g.tzv]
                 @@ generation_flow(g, api_key, geocode_ok)

\* the texts typed into the UTC offset field
TzTexts ==
    {<<>>, <<" ">>,
     <<"+", "0", "5", ":", "3", "0">>, <<"0", "5", ":", "3", "0">>,
     <<"-", "0", "4", ":", "0", "0">>, <<" ", "5", ".", "5">>,
     <<"-", "1", "2">>, <<"+", "1", "4", ":", "0", "0">>,
     <<"+", "1", "4", ":", "0", "1">>, <<"-", "1", "2", ":", "3", "0">>,
     <<"1", "4", ".", "0", "1">>, <<"1", "5">>,
     <<"+", "5", ":", "-", "3", "0">>, <<"+", "0", "5", ":", "3", "0", ":", "0", "0">>,
     <<"a", "b", "c">>, <<"5", ":">>, <<"n", "a", "n">>, <<"i", "n", "f">>,
     <<"-", "i", "n", "f">>}

\* the session state when the script reaches the gate; the widgets have set
\* their keys
Sessions ==
    [name_input  : {None, Str(<<" ">>), Str(<<"A">>)},
     place_input : {Str(<<>>), Str(<<"D", "e", "l", "h", "i">>)},
     tz_input    : {Str(t) : t \in TzTexts},
     dob_input   : {None, [date |-> 24 * Hour * 9000]},
     tob_input   : {None, [time |-> 6 * Hour + 5]},
     submitted   : BOOLEAN]

\* the Generate button clicked: submitted is set and the script is rerun
\* before it reaches the gate
ClickGenerate ==
    /\ fn = "none"
    /\ \E ss \in Sessions :
        /\ fn' = "Generate clicked"
        /\ arg' = ss
        /\ ret' = [session |-> [ss EXCEPT !.submitted = TRUE], rerun |-> TRUE,
                   can_generate |-> FALSE, calls |-> <<>>]
    /\ CallFrame

\* a run of the script that reaches the gate
RunScript ==
    /\ fn = "none"
    /\ \E ss \in Sessions, api_key \in {"", "key"}, geocode_ok \in BOOLEAN :
        /\ fn' = "script run"
        /\ arg' = ss
        /\ ret' = script_run(ss, api_key, geocode_ok)
    /\ CallFrame

GateNext == ClickGenerate \/ RunScript

GateInit == CallIdle /\ DashaOff /\ HouseOff /\ SidOff

SpecGate == GateInit /\ [][GateNext]_vars

\* name, place, date, time and UTC offset are all there
AllPresent(ss) ==
    /\ ss.name_input # None /\ strip(ss.name_input.str) # <<>>
    /\ strip(ss.place_input.str) # <<>>
    /\ strip(ss.tz_input.str) # <<>>
    /\ ss.dob_input # None
    /\ ss.tob_input # None

\* the parsed offset is a number of hours in [-12, +14]
OffsetInRange(r) ==
    /\ r # None
    /\ r.raised = "None"
    /\ "num" \in DOMAIN r.value
    /\ r.value.num \in (0 - 12 * Hour) .. (14 * Hour)

Started == ret.can_generate \/ ret.calls # <<>>

\* C29: generation (geocoding, then sidereal_positions) is started only when
\* name, place, date, time and UTC offset are all there and the parsed offset
\* lies in [-12, +14] hours; for any other input can_generate stays false and
\* sidereal_positions is not called; and the UTC instant is the local one
\* minus the offset that passed the check
Claim_C29 ==
    fn \in {"script run", "Generate clicked"}
    => /\ Started => fn = "script run" /\ AllPresent(arg) /\ OffsetInRange(ret.tzv)
       /\ (\E i \in 1 .. Len(ret.calls) : ret.calls[i] = "sidereal_positions")
          => /\ ret.tz_hours = ret.tzv.value
             /\ ret.dt_utc = Num(arg.dob_input.date + arg.tob_input.time
                                    - ret.tzv.value.num)

\* what the gate lets through besides offsets in range: an offset that parses
\* to NaN
GateLetsNaNThrough ==
    (fn = "script run" /\ Started)
    => /\ arg.submitted /\ AllPresent(arg)
       /\ OffsetInRange(ret.tzv) \/ ret.tzv = Returns(NaN)

\* sidereal_positions is called only with an offset in range, the one checked
EphemerisOnlyInRange ==
    (fn = "script run"
        /\ \E i \in 1 .. Len(ret.calls) : ret.calls[i] = "sidereal_positions")
    => /\ OffsetInRange(ret.tzv)
       /\ ret.tz_hours = ret.tzv.value
       /\ ret.dt_utc = Num(arg.dob_input.date + arg.tob_input.time - ret.tz_hours.num)

----------------------------------------------------------------------------
(* Kaalsarp: the seven planets and the Rahu-Ketu axis                         *)

SevenPlanets == <<"Su", "Mo", "Ma", "Me", "Ju", "Ve", "Sa">>

\* the loop of detect_kaalsarp from planet i on: the count of planets inside
RECURSIVE KaalsarpLoop(_, _, _, _, _)
KaalsarpLoop(sidelons, ra, span, inside, i) ==
    IF i > Len(SevenPlanets) THEN inside
    ELSE LET ang == (sidelons[SevenPlanets[i]] - ra) % Full
         IN  KaalsarpLoop(sidelons, ra, span,
                          IF ang <= span THEN inside + 1 ELSE inside, i + 1)

\* app.py detect_kaalsarp; a missing key raises KeyError, which returns False
detect_kaalsarp(sidelons) ==
    IF ~({"Ra"} \cup {SevenPlanets[i] : i \in 1 .. 7} \subseteq DOMAIN sidelons)
    THEN FALSE
    ELSE LET ra   == sidelons["Ra"] % Full
             ke   == (ra + 180 * Deg) % Full
             span == (ke - ra) % Full
         IN  KaalsarpLoop(sidelons, ra, span, 0, 1) = 7

\* where a planet stands, counted from Rahu: on Rahu, past it, just before
\* Ketu, on Ketu, just past Ketu, and just before Rahu
AxisOffsets ==
    {0, 10 * Deg, 180 * Deg - 1, 180 * Deg, 180 * Deg + 1, 350 * Deg}

\* charts: Rahu and Ketu opposite, Sun, Moon and Mars anywhere about the
\* axis, the four others on either side
KaalsarpCharts ==
    {[code \in {PLANETS[i] : i \in 1 .. 9} |->
         IF code = "Ra" THEN ra
         ELSE IF code = "Ke" THEN (ra + 180 * Deg) % Full
         ELSE IF code = "Su" THEN (ra + su) % Full
         ELSE IF code = "Mo" THEN (ra + mo) % Full
         ELSE IF code = "Ma" THEN (ra + ma) % Full
         ELSE IF code \in {"Me", "Ju"} THEN (ra + a) % Full
         ELSE (ra + b) % Full] :
        ra \in {40 * Deg, 350 * Deg}, su \in AxisOffsets, mo \in AxisOffsets,
        ma \in {10 * Deg, 350 * Deg}, a \in {60 * Deg, 240 * Deg},
        b \in {120 * Deg, 300 * Deg}}

CallDetectKaalsarp ==
    /\ fn = "none"
    /\ \E sidelons \in KaalsarpCharts :
        /\ fn' = "detect_kaalsarp"
        /\ arg' = sidelons
        /\ ret' = detect_kaalsarp(sidelons)
    /\ CallFrame

KaalsarpNext == CallDetectKaalsarp

KaalsarpInit == CallIdle /\ DashaOff /\ HouseOff /\ SidOff

SpecKaalsarp == KaalsarpInit /\ [][KaalsarpNext]_vars

\* the longitude lies on the arc that runs forward from a to b, ends included
OnArc(lon, a, b) == (lon - a) % Full <= (b - a) % Full

\* all seven planets on the arc from a to b
SevenOnArc(sidelons, a, b) ==
    \A i \in 1 .. 7 : OnArc(sidelons[SevenPlanets[i]], a, b)

\* C30: detect_kaalsarp is true exactly when all seven planets from the Sun
\* to Saturn lie in the same one of the two half-circles of the Rahu-Ketu
\* axis, the arc Rahu -> Ketu or the arc Ketu -> Rahu
Claim_C30 ==
    fn = "detect_kaalsarp"
    => (ret <=> \/ SevenOnArc(arg, arg["Ra"], arg["Ke"])
                \/ SevenOnArc(arg, arg["Ke"], arg["Ra"]))

\* what the code tests: the arc Rahu -> Ketu alone
KaalsarpRahuToKetuOnly ==
    fn = "detect_kaalsarp" => (ret <=> SevenOnArc(arg, arg["Ra"], arg["Ke"]))

====
